---- MODULE Spec2Model ----
(***************************************************************************)
(* The dev QA surface of the auth service (src/src/dev.ts): the credential *)
(* scheme detector, the authorization helpers, the preHandler hook and the *)
(* twelve /dev route handlers, run against a model of the Identity         *)
(* Provider / Organization Directory they delegate to.                     *)
(*                                                                         *)
(* Conventions.  A header, body, query or params object is a function from *)
(* the names it holds to their values; a name outside the DOMAIN reads as  *)
(* JavaScript's undefined.  A header value is the sequence of its          *)
(* space-separated words ("Bearer sA" is <<"Bearer", "sA">>, the empty     *)
(* string is <<>>).  An optional number (JavaScript's null or a number) is *)
(* <<>> or <<n>>.  A thrown error is a record with thrown = TRUE.          *)
(***************************************************************************)
EXTENDS Naturals, Sequences, FiniteSets, TLC

\* ---------------------------------------------------------------- bounds
\* API keys the Identity Provider mints in one behaviour.
MaxKeys == 1
\* Organizations the Organization Directory creates in one behaviour.
MaxOrgs == 1

VARIABLES
  processEnv,   \* process.env: the environment the process is started in
  env,          \* env.ts: what envSchema.parse made of it (NotLoaded before)
  phase,        \* the process: "starting", "failed" or "serving"
  devEnabled,   \* the ENABLE_DEV_ENDPOINTS flag dev.ts imports
  apiKeys,      \* Identity Provider: the live API keys
  keyCount,     \* Identity Provider: keys minted so far (ids are never reused)
  orgCount,     \* Organization Directory: organizations created so far
  members,      \* Organization Directory: the membership rows
  sessions,     \* Identity Provider: the valid session tokens
  revoked,      \* key ids whose DELETE request was answered {success: true}
  req,          \* the request handled last
  resp,         \* the response sent for it
  calls         \* the Identity Provider / Directory calls made for it, in order

vars == <<processEnv, env, phase, devEnabled, apiKeys, keyCount, orgCount, members, sessions, revoked,
          req, resp, calls>>

idpVars == <<apiKeys, keyCount, orgCount, members, sessions>>
\* what is fixed once the process serves
startVars == <<processEnv, env, phase, devEnabled>>

\* ------------------------------------------------------ JavaScript values
None == <<>>
Some(v) == <<v>>

Has(o, k) == k \in DOMAIN o
\* o[k] || dflt, for string-valued fields
OrElse(o, k, dflt) == IF Has(o, k) /\ o[k] # "" THEN o[k] ELSE dflt
\* a header value is truthy when it is present and not the empty string
HeaderSet(h, k) == Has(h, k) /\ h[k] # <<>>

\* -------------------------------------------------------------- env.ts:4-17
\* A value of the environment is a string; TRUSTED_ORIGINS is the sequence of
\* its pieces: origins, "," and " ".
LocalUrl == "http://localhost:5000"
getDevUrl(pe) ==
  IF Has(pe, "REPLIT_DEV_DOMAIN") /\ pe["REPLIT_DEV_DOMAIN"] # ""
  THEN "https://" \o pe["REPLIT_DEV_DOMAIN"]
  ELSE LocalUrl
getDefaultTrustedOrigins(pe) ==
  IF Has(pe, "REPLIT_DEV_DOMAIN") /\ pe["REPLIT_DEV_DOMAIN"] # ""
  THEN <<"https://" \o pe["REPLIT_DEV_DOMAIN"], ",", LocalUrl, ",", "http://0.0.0.0:5000">>
  ELSE <<LocalUrl, ",", "http://0.0.0.0:5000">>

\* ------------------------------------------------------------- env.ts:19-27
\* Number(text), None for NaN, on the texts the environments here hold.
NumberOf(text) ==
  CASE text = "8080" -> Some(8080)
    [] text = "99999" -> Some(99999)
    [] text = "" -> Some(0)
    [] OTHER -> None
\* z.string().url(): the text parses as a URL
IsUrl(text) ==
  text \in {LocalUrl, "https://auth.example.com", "postgresql://u:p@db:5432/auth"}
DefaultPort == 5000
MinSecretLength == 24
DefaultSecret == "default-development-secret-key-change-in-production-min-24-chars"

\* Variant of envSchema that accepts a signing secret of any length.
envSchemaAnySecret(pe) ==
  LET PORT == IF Has(pe, "PORT") THEN NumberOf(pe["PORT"]) ELSE Some(DefaultPort)
      URL == IF Has(pe, "BETTER_AUTH_URL") THEN pe["BETTER_AUTH_URL"] ELSE getDevUrl(pe)
      SECRET == IF Has(pe, "BETTER_AUTH_SECRET") THEN pe["BETTER_AUTH_SECRET"]
                ELSE DefaultSecret
      ORIGINS == IF Has(pe, "TRUSTED_ORIGINS") THEN pe["TRUSTED_ORIGINS"]
                 ELSE getDefaultTrustedOrigins(pe)
      issues == {k \in {"PORT"} : PORT = None}
                  \cup {k \in {"BETTER_AUTH_URL"} : ~ IsUrl(URL)}
                  \cup {k \in {"DATABASE_URL"} :
                          ~ Has(pe, "DATABASE_URL") \/ ~ IsUrl(pe["DATABASE_URL"])}
  IN IF issues # {} THEN [ok |-> FALSE, issues |-> issues]
     ELSE [ok |-> TRUE, PORT |-> PORT[1], BETTER_AUTH_URL |-> URL,
           BETTER_AUTH_SECRET |-> SECRET, TRUSTED_ORIGINS |-> ORIGINS,
           DATABASE_URL |-> pe["DATABASE_URL"]]

\* envSchema.parse(process.env): the parsed environment, or the ZodError it
\* throws (ok = FALSE, with the options at fault).
envSchema(pe) ==
  LET PORT == IF Has(pe, "PORT") THEN NumberOf(pe["PORT"]) ELSE Some(DefaultPort)
      URL == IF Has(pe, "BETTER_AUTH_URL") THEN pe["BETTER_AUTH_URL"] ELSE getDevUrl(pe)
      SECRET == IF Has(pe, "BETTER_AUTH_SECRET") THEN pe["BETTER_AUTH_SECRET"]
                ELSE DefaultSecret
      ORIGINS == IF Has(pe, "TRUSTED_ORIGINS") THEN pe["TRUSTED_ORIGINS"]
                 ELSE getDefaultTrustedOrigins(pe)
      issues == {k \in {"PORT"} : PORT = None}
                  \cup {k \in {"BETTER_AUTH_URL"} : ~ IsUrl(URL)}
                  \cup {k \in {"BETTER_AUTH_SECRET"} : Len(SECRET) < MinSecretLength}
                  \cup {k \in {"DATABASE_URL"} :
                          ~ Has(pe, "DATABASE_URL") \/ ~ IsUrl(pe["DATABASE_URL"])}
  IN IF issues # {} THEN [ok |-> FALSE, issues |-> issues]
     ELSE [ok |-> TRUE, PORT |-> PORT[1], BETTER_AUTH_URL |-> URL,
           BETTER_AUTH_SECRET |-> SECRET, TRUSTED_ORIGINS |-> ORIGINS,
           DATABASE_URL |-> pe["DATABASE_URL"]]
NotLoaded == [ok |-> FALSE, issues |-> {"not loaded"}]

\* ------------------------------------------------------------ env.ts:35-38
\* TRUSTED_ORIGINS.split(",").map(s => s.trim()).filter(Boolean)
RECURSIVE split(_)
split(pieces) ==
  IF \A i \in DOMAIN pieces : pieces[i] # "," THEN <<pieces>>
  ELSE LET c == CHOOSE i \in DOMAIN pieces :
                  pieces[i] = "," /\ \A j \in 1..(i - 1) : pieces[j] # ","
       IN <<SubSeq(pieces, 1, c - 1)>> \o split(SubSeq(pieces, c + 1, Len(pieces)))
RECURSIVE trimStart(_)
trimStart(pieces) ==
  IF pieces # <<>> /\ Head(pieces) = " " THEN trimStart(Tail(pieces)) ELSE pieces
RECURSIVE trimEnd(_)
trimEnd(pieces) ==
  IF pieces # <<>> /\ pieces[Len(pieces)] = " "
  THEN trimEnd(SubSeq(pieces, 1, Len(pieces) - 1)) ELSE pieces
RECURSIVE join(_)
join(pieces) == IF pieces = <<>> THEN "" ELSE Head(pieces) \o join(Tail(pieces))
trim(pieces) == join(trimEnd(trimStart(pieces)))

originsOf(text) ==
  LET parts == split(text)
      trimmed == [i \in DOMAIN parts |-> trim(parts[i])]
  IN SelectSeq(trimmed, LAMBDA o : o # "")
trustedOrigins == originsOf(env.TRUSTED_ORIGINS)

\* The environment the dev surface is exercised in.
Database == "postgresql://u:p@db:5432/auth"
DevProcessEnv == "DATABASE_URL" :> Database

\* ------------------------------------------------ principals (the provider's)
Users == {"A", "B", "R"}
NoUser == "-"
UserRole(u) == IF u = "R" THEN "admin" ELSE "user"
UserEmail(u) == u \o "@example.com"
OrgRoles == {"owner", "admin", "member"}

SignInToken(u) == "s" \o u
ImpersonationToken(u) == "i" \o u
TokenUser(t) ==
  IF \E u \in Users : t \in {SignInToken(u), ImpersonationToken(u)}
  THEN CHOOSE u \in Users : t \in {SignInToken(u), ImpersonationToken(u)}
  ELSE NoUser

KeyId(i) == "k" \o ToString(i)
OrgId(i) == "o" \o ToString(i)

\* ------------------------------------------------------------ dev.ts:8-12
StartsWithBearer(v) == Len(v) >= 2 /\ v[1] = "Bearer"

\* Variant of detectAuthMode that looks at the bearer header first.
detectAuthModeBearerFirst(headers) ==
  IF Has(headers, "authorization") /\ StartsWithBearer(headers["authorization"])
  THEN "bearer"
  ELSE IF HeaderSet(headers, "x-api-key") THEN "apiKey"
  ELSE "cookie"

detectAuthMode(headers) ==
  IF HeaderSet(headers, "x-api-key") THEN "apiKey"
  ELSE IF Has(headers, "authorization") /\ StartsWithBearer(headers["authorization"])
       THEN "bearer"
  ELSE "cookie"

\* Variant of toHeaders that forwards the cookie header alone.
toHeadersCookieOnly(reqHeaders) ==
  [k \in {n \in DOMAIN reqHeaders : n = "cookie" /\ reqHeaders[n] # <<>>}
     |-> reqHeaders[k]]

\* ----------------------------------------------------------- dev.ts:15-21
\* Only the headers with a truthy value are copied.
toHeaders(reqHeaders) ==
  [k \in {n \in DOMAIN reqHeaders : reqHeaders[n] # <<>>} |-> reqHeaders[k]]

\* ------------------------------------------------------- thrown / returned
\* What a call returns: a value, or a thrown error {status?, message}. `st` is
\* the provider's state after the call, `calls` the provider calls it made.
ProviderState ==
  [apiKeys |-> apiKeys, keyCount |-> keyCount, orgCount |-> orgCount,
   members |-> members, sessions |-> sessions]

Call(op, args, result) == [op |-> op, args |-> args, result |-> result]

Returned(value, st, cs) ==
  [thrown |-> FALSE, hasStatus |-> FALSE, status |-> 0, message |-> "",
   value |-> value, st |-> st, calls |-> cs]
Thrown(status, message, st, cs) ==
  [thrown |-> TRUE, hasStatus |-> TRUE, status |-> status, message |-> message,
   value |-> <<>>, st |-> st, calls |-> cs]
ThrownUntyped(message, st, cs) ==
  [thrown |-> TRUE, hasStatus |-> FALSE, status |-> 0, message |-> message,
   value |-> <<>>, st |-> st, calls |-> cs]
\* the same outcome with `cs` in front of its calls
After(cs, r) == [r EXCEPT !.calls = cs \o @]

\* ------------------------------------------- the Identity Provider (model)
\* The failures a request meets at the provider: none, getSession throwing an
\* untyped error, or the operation's delegate call throwing a typed or an
\* untyped error.
Faults == {"none", "session", "delegateTyped", "delegateUntyped"}
ProviderDown == "connect ECONNREFUSED"

\* The principal the provider resolves from the credentials in `headers`, in
\* the provider's state `st`: the API key, else the bearer token, else the
\* session cookie.
SessionUser(st, headers) ==
  IF HeaderSet(headers, "x-api-key")
  THEN LET k == headers["x-api-key"][1] IN
       IF \E key \in st.apiKeys : key.id = k
       THEN (CHOOSE key \in st.apiKeys : key.id = k).userId
       ELSE NoUser
  ELSE IF Has(headers, "authorization") /\ StartsWithBearer(headers["authorization"])
  THEN LET t == headers["authorization"][2] IN
       IF t \in st.sessions THEN TokenUser(t) ELSE NoUser
  ELSE IF HeaderSet(headers, "cookie")
  THEN LET t == headers["cookie"][1] IN
       IF t \in st.sessions THEN TokenUser(t) ELSE NoUser
  ELSE NoUser

\* auth.api.getSession({headers}): the session ({user}) or null.
getSession(st, headers, fault) ==
  IF fault = "session"
  THEN ThrownUntyped(ProviderDown, st, <<Call("getSession", <<>>, "throw")>>)
  ELSE LET u == SessionUser(st, headers) IN
       Returned(u, st, <<Call("getSession", <<>>, IF u = NoUser THEN "null" ELSE u)>>)

\* What the delegate call of an operation does when the request's fault hits it.
DelegateFault(op, args, st, fault) ==
  IF fault = "delegateTyped"
  THEN Thrown(502, "Bad gateway", st, <<Call(op, args, "throw")>>)
  ELSE ThrownUntyped(ProviderDown, st, <<Call(op, args, "throw")>>)
Faulty(fault) == fault \in {"delegateTyped", "delegateUntyped"}
Rejected(op, args, st, status, message) ==
  Thrown(status, message, st, <<Call(op, args, "throw")>>)
Done(op, args, value, st) == Returned(value, st, <<Call(op, args, "ok")>>)

\* auth.api.listOrganizations({headers}): the caller's (organization, role) rows.
listOrganizations(st, headers) ==
  LET u == SessionUser(st, headers) IN
  Returned({[id |-> m.organizationId, role |-> m.role] :
              m \in {x \in st.members : x.userId = u}},
           st, <<Call("listOrganizations", <<>>, "ok")>>)

\* Variant of requireUser that returns whatever getSession resolved, a missing
\* session included.
requireUserUnchecked(st, headers, fault) == getSession(st, headers, fault)

\* ----------------------------------------------------------- dev.ts:24-30
\* Variant of requireUser that remembers the keys earlier requests dealt with:
\* a key it has seen revoked is answered from memory, the provider not asked.
requireUserCached(st, headers, fault) ==
  IF HeaderSet(headers, "x-api-key") /\ headers["x-api-key"][1] \in revoked
  THEN Returned("A", st, <<Call("getSession", <<>>, "A")>>)
  ELSE LET session == getSession(st, headers, fault) IN
       IF session.thrown THEN session
       ELSE IF session.value = NoUser
            THEN Thrown(401, "Authentication required", st, session.calls)
       ELSE session

requireUser(st, headers, fault) ==
  LET session == getSession(st, headers, fault) IN
  IF session.thrown THEN session
  ELSE IF session.value = NoUser
       THEN Thrown(401, "Authentication required", st, session.calls)
  ELSE session

\* Variant of requireAdmin that accepts every authenticated principal.
requireAdminAnyRole(st, headers, fault) == requireUser(st, headers, fault)

\* ----------------------------------------------------------- dev.ts:32-38
requireAdmin(st, headers, fault) ==
  LET session == requireUser(st, headers, fault) IN
  IF session.thrown THEN session
  ELSE IF UserRole(session.value) # "admin"
       THEN Thrown(403, "Admin access required", st, session.calls)
  ELSE session

\* Variant of ManagerRoles that lets every member manage the members.
AnyMemberRoles == {"owner", "admin", "member"}

\* The roles the member-managing routes (dev.ts:290, 314) and the member
\* listing (dev.ts:337) hand to requireOrgRole.
ManagerRoles == {"owner", "admin"}
ReaderRoles == {"owner", "admin", "member"}

\* Variant of requireOrgRole that accepts an allowed role in any organization.
requireOrgRoleAnyOrg(st, headers, orgId, roles, fault) ==
  LET session == requireUser(st, headers, fault) IN
  IF session.thrown THEN session
  ELSE LET organizations == listOrganizations(st, headers)
           cs == session.calls \o organizations.calls
       IN IF \E org \in organizations.value : org.role \in roles
          THEN [session EXCEPT !.calls = cs]
          ELSE Thrown(403, "Insufficient organization permissions", st, cs)

\* ----------------------------------------------------------- dev.ts:40-55
\* Variant of requireOrgRole that lets a global admin through without asking
\* for the memberships.
requireOrgRoleOrAdmin(st, headers, orgId, roles, fault) ==
  LET session == requireUser(st, headers, fault) IN
  IF session.thrown THEN session
  ELSE IF UserRole(session.value) = "admin" THEN session
  ELSE LET organizations == listOrganizations(st, headers)
           cs == session.calls \o organizations.calls
       IN IF \E org \in organizations.value : org.id = orgId /\ org.role \in roles
          THEN [session EXCEPT !.calls = cs]
          ELSE Thrown(403, "Insufficient organization permissions", st, cs)

requireOrgRole(st, headers, orgId, roles, fault) ==
  LET session == requireUser(st, headers, fault) IN
  IF session.thrown THEN session
  ELSE LET organizations == listOrganizations(st, headers)
           cs == session.calls \o organizations.calls
       IN IF \E org \in organizations.value : org.id = orgId /\ org.role \in roles
          THEN [session EXCEPT !.calls = cs]
          ELSE Thrown(403, "Insufficient organization permissions", st, cs)

\* ---------------------------------- the provider's operations (model, cont.)
\* Each authenticates the caller from the headers it is handed, as the
\* provider's API does, then acts on its own state.
Unauthorized(op, args, st) == Rejected(op, args, st, 401, "Unauthorized")

\* auth.api.createApiKey({headers, body: {userId, name, expiresIn}})
createApiKey(st, headers, body, fault) ==
  LET op == "createApiKey" IN
  IF Faulty(fault) THEN DelegateFault(op, body, st, fault)
  ELSE IF SessionUser(st, headers) = NoUser THEN Unauthorized(op, body, st)
  ELSE IF body.userId \notin Users THEN Rejected(op, body, st, 404, "User not found")
  ELSE LET id == KeyId(st.keyCount + 1)
           key == [id |-> id, userId |-> body.userId, name |-> body.name,
                   expiresAt |-> body.expiresIn]
       IN Done(op, body, [key |-> id, id |-> id, expiresAt |-> key.expiresAt],
               [st EXCEPT !.apiKeys = @ \cup {key}, !.keyCount = @ + 1])

\* auth.api.listApiKeys({headers, query: {userId}})
listApiKeys(st, headers, query, fault) ==
  LET op == "listApiKeys" IN
  IF Faulty(fault) THEN DelegateFault(op, query, st, fault)
  ELSE IF SessionUser(st, headers) = NoUser THEN Unauthorized(op, query, st)
  ELSE Done(op, query, {k \in st.apiKeys : k.userId = query.userId}, st)

\* auth.api.deleteApiKey({headers, body: {keyId}}): the caller must own the key
\* or be a global admin.
deleteApiKey(st, headers, body, fault) ==
  LET op == "deleteApiKey"
      u == SessionUser(st, headers)
  IN
  IF Faulty(fault) THEN DelegateFault(op, body, st, fault)
  ELSE IF u = NoUser THEN Unauthorized(op, body, st)
  ELSE IF ~ \E k \in st.apiKeys : k.id = body.keyId
       THEN Rejected(op, body, st, 404, "API key not found")
  ELSE LET key == CHOOSE k \in st.apiKeys : k.id = body.keyId IN
       IF key.userId # u /\ UserRole(u) # "admin"
       THEN Rejected(op, body, st, 403, "Forbidden")
       ELSE Done(op, body, [success |-> TRUE], [st EXCEPT !.apiKeys = @ \ {key}])

\* POST ${authUrl}/api/auth/token with the forwarded credentials: the provider
\* signs a token for the principal those credentials resolve to.
fetchToken(st, headers, body, fault) ==
  LET op == "fetch /api/auth/token"
      args == [headers |-> headers, body |-> body]
      u == SessionUser(st, toHeaders(headers))
  IN
  IF fault = "delegateUntyped" THEN DelegateFault(op, args, st, fault)
  ELSE IF fault = "delegateTyped" \/ u = NoUser
       THEN Returned([ok |-> FALSE], st, <<Call(op, args, "throw")>>)
  ELSE Returned([ok |-> TRUE,
                 token |-> [sub |-> u, expiresIn |-> body.expiresIn]
                             @@ (IF Has(body, "audience")
                                 THEN [aud |-> body.audience] ELSE <<>>)],
                st, <<Call(op, args, "ok")>>)

\* GET ${authUrl}/api/auth/jwks
Jwks == [keys |-> {"jwk1"}]
fetchJwks(st, fault) ==
  LET op == "fetch /api/auth/jwks" IN
  IF fault = "delegateUntyped" THEN DelegateFault(op, <<>>, st, fault)
  ELSE IF fault = "delegateTyped"
       THEN Returned([ok |-> FALSE], st, <<Call(op, <<>>, "throw")>>)
  ELSE Returned([ok |-> TRUE, json |-> Jwks], st, <<Call(op, <<>>, "ok")>>)

\* auth.api.createOrganization({headers, body: {name, slug}}): the caller
\* becomes the owner of the new organization.
createOrganization(st, headers, body, fault) ==
  LET op == "createOrganization"
      u == SessionUser(st, headers)
  IN
  IF Faulty(fault) THEN DelegateFault(op, body, st, fault)
  ELSE IF u = NoUser THEN Unauthorized(op, body, st)
  ELSE IF body.name = <<>> THEN Rejected(op, body, st, 400, "name is required")
  ELSE LET id == OrgId(st.orgCount + 1) IN
       Done(op, body, [id |-> id, name |-> body.name, slug |-> body.slug],
            [st EXCEPT !.orgCount = @ + 1,
                       !.members = @ \cup {[organizationId |-> id, userId |-> u,
                                            role |-> "owner"]}])

\* auth.api.organizationInvite({headers, body: {organizationId, email, role}}):
\* the principal with that email becomes a member.
organizationInvite(st, headers, body, fault) ==
  LET op == "organizationInvite" IN
  IF Faulty(fault) THEN DelegateFault(op, body, st, fault)
  ELSE IF SessionUser(st, headers) = NoUser THEN Unauthorized(op, body, st)
  ELSE IF ~ Has(body, "email") THEN Rejected(op, body, st, 400, "email is required")
  ELSE IF ~ \E u \in Users : UserEmail(u) = body.email
       THEN Rejected(op, body, st, 404, "User not found")
  ELSE LET u == CHOOSE x \in Users : UserEmail(x) = body.email
           row == [organizationId |-> body.organizationId, userId |-> u,
                   role |-> body.role]
       IN IF body.role \notin OrgRoles
          THEN Rejected(op, body, st, 400, "Invalid role")
          ELSE IF \E m \in st.members :
                    m.organizationId = body.organizationId /\ m.userId = u
          THEN Rejected(op, body, st, 400, "User is already a member")
          ELSE Done(op, body, row, [st EXCEPT !.members = @ \cup {row}])

\* auth.api.updateMemberRole({headers, body: {organizationId, memberId, role}})
updateMemberRole(st, headers, body, fault) ==
  LET op == "updateMemberRole" IN
  IF Faulty(fault) THEN DelegateFault(op, body, st, fault)
  ELSE IF SessionUser(st, headers) = NoUser THEN Unauthorized(op, body, st)
  ELSE IF ~ Has(body, "role") \/ (Has(body, "role") /\ body.role \notin OrgRoles)
       THEN Rejected(op, body, st, 400, "Invalid role")
  ELSE IF ~ \E m \in st.members :
            m.organizationId = body.organizationId /\ m.userId = body.memberId
       THEN Rejected(op, body, st, 404, "Member not found")
  ELSE LET old == CHOOSE m \in st.members :
                    m.organizationId = body.organizationId /\ m.userId = body.memberId
           row == [old EXCEPT !.role = body.role]
       IN Done(op, body, row, [st EXCEPT !.members = (@ \ {old}) \cup {row}])

\* auth.api.getFullOrganization({headers, query: {organizationId}})
getFullOrganization(st, headers, query, fault) ==
  LET op == "getFullOrganization" IN
  IF Faulty(fault) THEN DelegateFault(op, query, st, fault)
  ELSE IF SessionUser(st, headers) = NoUser THEN Unauthorized(op, query, st)
  ELSE Done(op, query,
            [members |-> {m \in st.members : m.organizationId = query.organizationId}],
            st)

\* auth.api.listUsers({headers, query: {limit}})
listUsers(st, headers, query, fault) ==
  LET op == "listUsers" IN
  IF Faulty(fault) THEN DelegateFault(op, query, st, fault)
  ELSE IF SessionUser(st, headers) = NoUser THEN Unauthorized(op, query, st)
  ELSE Done(op, query, Users, st)

\* auth.api.impersonateUser({headers, body: {userId}}): a session for the target.
impersonateUser(st, headers, body, fault) ==
  LET op == "impersonateUser" IN
  IF Faulty(fault) THEN DelegateFault(op, body, st, fault)
  ELSE IF SessionUser(st, headers) = NoUser THEN Unauthorized(op, body, st)
  ELSE IF ~ Has(body, "userId") THEN Rejected(op, body, st, 400, "userId is required")
  ELSE IF body.userId \notin Users THEN Rejected(op, body, st, 404, "User not found")
  ELSE LET t == ImpersonationToken(body.userId) IN
       Done(op, body, [session |-> [token |-> t]],
            [st EXCEPT !.sessions = @ \cup {t}])

\* ------------------------------------------------------- requests, replies
\* A request: [method, url |-> [path, search], headers, query, hasBody, body,
\* fault].  url.path is the sequence of the path's segments and url.search the
\* query string ("" or "?..."); request.url in the source is the two together.
\* hasBody = FALSE is a request whose request.body is undefined.
JwksPath == <<"dev", "jwks.json">>
MePath == <<"me">>
IsJwksUrl(url) == url.path = JwksPath /\ url.search = ""          \* url === "/dev/jwks.json"
StartsWithDev(url) == Len(url.path) >= 1 /\ url.path[1] = "dev"   \* url.startsWith("/dev")

NoHeaders == [n \in {} |-> <<>>]
Reply(status, body, headers) == [status |-> status, body |-> body, headers |-> headers]
\* reply.send(body): status 200
Send(body) == Reply(200, body, NoHeaders)
Outcome(reply, st, cs) == [sent |-> TRUE, reply |-> reply, st |-> st, calls |-> cs]
\* a hook that returns without sending
Pass(st, cs) == [sent |-> FALSE, reply |-> Reply(0, <<>>, NoHeaders), st |-> st, calls |-> cs]

\* Variant of Caught that answers every failure with status 500.
CaughtAsInternal(e) ==
  Outcome(Reply(500, [error |-> e.message], NoHeaders), e.st, e.calls)

\* catch (error) { reply.status(error.status || 500).send({ error: error.message }) }
Caught(e) ==
  Outcome(Reply(IF e.hasStatus /\ e.status # 0 THEN e.status ELSE 500,
                [error |-> e.message], NoHeaders),
          e.st, e.calls)
\* reading a property of an undefined body
TypeError(field, st, cs) ==
  ThrownUntyped("Cannot read properties of undefined (reading '" \o field \o "')", st, cs)

\* Variant of preHandler that authenticates every request, the key set's too.
preHandlerNoExemption(st, request) ==
  LET headers == toHeaders(request.headers)
      session == requireUser(st, headers, request.fault)
  IN IF session.thrown THEN Caught(session) ELSE Pass(st, session.calls)

\* ----------------------------------------------------------- dev.ts:79-92
preHandler(st, request) ==
  IF IsJwksUrl(request.url) THEN Pass(st, <<>>)
  ELSE LET headers == toHeaders(request.headers)
           session == requireUser(st, headers, request.fault)
       IN IF session.thrown THEN Caught(session) ELSE Pass(st, session.calls)

\* ---------------------------------------------------------- dev.ts:95-116
GetWhoami(st, request, params) ==
  LET headers == toHeaders(request.headers)
      session == requireUser(st, headers, request.fault)
  IN
  IF session.thrown THEN Caught(session)
  ELSE LET mode == detectAuthMode(request.headers)
           listed == listOrganizations(st, headers)
           \* .catch(() => []): a failing listing reads as no membership
           organizations == IF Faulty(request.fault) THEN {} ELSE listed.value
       IN Outcome(Send([mode |-> mode,
                        user |-> [id |-> session.value,
                                  email |-> UserEmail(session.value),
                                  role |-> UserRole(session.value)],
                        memberships |-> organizations]),
                  st, session.calls \o listed.calls)

\* Variant of SelfOrAdmin that lets every caller act for anyone.
ForAnyone(caller, targetUserId) == TRUE

\* Variant of SelfOrAdmin that lets only a global admin act, even for themselves.
AdminOnly(caller, targetUserId) == UserRole(caller) = "admin"

\* ------------------------------------------------- dev.ts:128, 163, 206
\* targetUserId !== session.user.id && session.user.role !== "admin", negated:
\* a caller acts for themselves, a global admin for anyone.
SelfOrAdmin(caller, targetUserId) ==
  targetUserId = caller \/ UserRole(caller) = "admin"

\* --------------------------------------------------------- dev.ts:119-151
SecondsPerDay == 24 * 60 * 60

PostApiKeys(st, request, params) ==
  LET headers == toHeaders(request.headers)
      session == requireUser(st, headers, request.fault)
      body == request.body
  IN
  IF session.thrown THEN Caught(session)
  ELSE IF ~ request.hasBody THEN Caught(TypeError("userId", st, session.calls))
  ELSE LET targetUserId == OrElse(body, "userId", session.value) IN
       IF ~ SelfOrAdmin(session.value, targetUserId)
       THEN Outcome(Reply(403, [error |-> "Can only create API keys for yourself or as admin"],
                          NoHeaders),
                    st, session.calls)
       ELSE LET result ==
                  createApiKey(st, headers,
                               [userId |-> targetUserId,
                                name |-> OrElse(body, "label", "Dev API Key"),
                                expiresIn |->
                                  IF Has(body, "expiresInDays") /\ body.expiresInDays # 0
                                  THEN Some(body.expiresInDays * SecondsPerDay)
                                  ELSE None],
                               request.fault)
            IN IF result.thrown THEN Caught(After(session.calls, result))
               ELSE Outcome(Send([key |-> result.value.key,
                                  keyId |-> result.value.id,
                                  userId |-> targetUserId,
                                  expiresAt |-> result.value.expiresAt]
                                 @@ (IF Has(body, "label")
                                     THEN [label |-> body.label] ELSE <<>>)),
                            result.st, session.calls \o result.calls)

\* --------------------------------------------------------- dev.ts:154-176
GetApiKeys(st, request, params) ==
  LET headers == toHeaders(request.headers)
      session == requireUser(st, headers, request.fault)
      query == request.query
  IN
  IF session.thrown THEN Caught(session)
  ELSE LET targetUserId == OrElse(query, "userId", session.value) IN
       IF ~ SelfOrAdmin(session.value, targetUserId)
       THEN Outcome(Reply(403, [error |-> "Can only list your own API keys or as admin"],
                          NoHeaders),
                    st, session.calls)
       ELSE LET keys == listApiKeys(st, headers, [userId |-> targetUserId], request.fault)
            IN IF keys.thrown THEN Caught(After(session.calls, keys))
               ELSE Outcome(Send([keys |-> keys.value]), keys.st,
                            session.calls \o keys.calls)

\* Variant of DeleteApiKey that answers success without asking the provider to
\* delete the key.
DeleteApiKeyUndelegated(st, request, params) ==
  LET headers == toHeaders(request.headers)
      session == requireUser(st, headers, request.fault)
  IN
  IF session.thrown THEN Caught(session)
  ELSE Outcome(Send([success |-> TRUE]), st, session.calls)

\* --------------------------------------------------------- dev.ts:179-194
DeleteApiKey(st, request, params) ==
  LET headers == toHeaders(request.headers)
      session == requireUser(st, headers, request.fault)
  IN
  IF session.thrown THEN Caught(session)
  ELSE LET result == deleteApiKey(st, headers, [keyId |-> params.keyId], request.fault)
       IN IF result.thrown THEN Caught(After(session.calls, result))
          ELSE Outcome(Send([success |-> TRUE]), result.st,
                       session.calls \o result.calls)

\* --------------------------------------------------------- dev.ts:197-242
DefaultTtlSeconds == 1800

PostJwtIssue(st, request, params) ==
  LET headers == toHeaders(request.headers)
      session == requireUser(st, headers, request.fault)
      body == request.body
      Get(k) == IF Has(headers, k) THEN headers[k] ELSE <<>>   \* headers.get(k) || ''
  IN
  IF session.thrown THEN Caught(session)
  ELSE IF ~ request.hasBody THEN Caught(TypeError("userId", st, session.calls))
  ELSE LET targetUserId == OrElse(body, "userId", session.value) IN
       IF ~ SelfOrAdmin(session.value, targetUserId)
       THEN Outcome(Reply(403, [error |-> "Can only issue JWT for yourself or as admin"],
                          NoHeaders),
                    st, session.calls)
       ELSE LET ttl == IF Has(body, "ttlSeconds") /\ body.ttlSeconds # 0
                       THEN body.ttlSeconds ELSE DefaultTtlSeconds
                expiresAt == ttl * 1000       \* milliseconds after Date.now()
                tokenResponse ==
                  fetchToken(st,
                             [k \in {"cookie", "authorization", "x-api-key"} |-> Get(k)],
                             [expiresIn |-> ttl]
                               @@ (IF Has(body, "audience")
                                   THEN [audience |-> body.audience] ELSE <<>>),
                             request.fault)
                cs == session.calls \o tokenResponse.calls
            IN IF tokenResponse.thrown THEN Caught(After(session.calls, tokenResponse))
               ELSE IF ~ tokenResponse.value.ok
                    THEN Caught(Thrown(400, "Failed to create JWT token", st, cs))
               ELSE Outcome(Send([token |-> tokenResponse.value.token,
                                  expiresAt |-> expiresAt]),
                            tokenResponse.st, cs)

\* --------------------------------------------------------- dev.ts:245-260
GetJwksJson(st, request, params) ==
  LET jwksResponse == fetchJwks(st, request.fault) IN
  IF jwksResponse.thrown THEN Caught(jwksResponse)
  ELSE IF ~ jwksResponse.value.ok
       THEN Caught(Thrown(500, "Failed to fetch JWKS", st, jwksResponse.calls))
  ELSE Outcome(Send(jwksResponse.value.json), st, jwksResponse.calls)

\* ------------------------------------------------------------- dev.ts:273
\* name.toLowerCase().replace(/\s+/g, '-').replace(/[^a-z0-9-]/g, ''), on a
\* string given as the sequence of its characters.
UpperAlpha == <<"A","B","C","D","E","F","G","H","I","J","K","L","M",
                "N","O","P","Q","R","S","T","U","V","W","X","Y","Z">>
LowerAlpha == <<"a","b","c","d","e","f","g","h","i","j","k","l","m",
                "n","o","p","q","r","s","t","u","v","w","x","y","z">>
Digits == {"0","1","2","3","4","5","6","7","8","9"}
Whitespace == {" ", "\t", "\n"}
SlugChars == {LowerAlpha[i] : i \in DOMAIN LowerAlpha} \cup Digits \cup {"-"}

toLowerCase(str) ==
  [i \in DOMAIN str |->
     IF \E j \in DOMAIN UpperAlpha : UpperAlpha[j] = str[i]
     THEN LowerAlpha[CHOOSE j \in DOMAIN UpperAlpha : UpperAlpha[j] = str[i]]
     ELSE str[i]]

RECURSIVE SkipWhitespace(_)
SkipWhitespace(str) ==
  IF str # <<>> /\ Head(str) \in Whitespace THEN SkipWhitespace(Tail(str)) ELSE str

RECURSIVE DashWhitespace(_)
DashWhitespace(str) ==
  IF str = <<>> THEN <<>>
  ELSE IF Head(str) \in Whitespace THEN <<"-">> \o DashWhitespace(SkipWhitespace(str))
  ELSE <<Head(str)>> \o DashWhitespace(Tail(str))

Slug(name) == SelectSeq(DashWhitespace(toLowerCase(name)), LAMBDA c : c \in SlugChars)

\* --------------------------------------------------------- dev.ts:263-281
PostOrgs(st, request, params) ==
  LET headers == toHeaders(request.headers)
      session == requireUser(st, headers, request.fault)
      body == request.body
  IN
  IF session.thrown THEN Caught(session)
  ELSE IF ~ request.hasBody THEN Caught(TypeError("name", st, session.calls))
  ELSE IF ~ Has(body, "name") THEN Caught(TypeError("toLowerCase", st, session.calls))
  ELSE LET org == createOrganization(st, headers,
                                     [name |-> body.name, slug |-> Slug(body.name)],
                                     request.fault)
       IN IF org.thrown THEN Caught(After(session.calls, org))
          ELSE Outcome(Send([org |-> org.value]), org.st, session.calls \o org.calls)

\* --------------------------------------------------------- dev.ts:284-305
PostOrgMembers(st, request, params) ==
  LET headers == toHeaders(request.headers)
      body == request.body
      session == requireOrgRole(st, headers, params.orgId, ManagerRoles,
                                request.fault)
  IN
  IF session.thrown THEN Caught(session)
  ELSE IF ~ request.hasBody THEN Caught(TypeError("email", st, session.calls))
  ELSE LET member ==
             organizationInvite(st, headers,
                                [organizationId |-> params.orgId,
                                 role |-> OrElse(body, "role", "member")]
                                  @@ (IF Has(body, "email")
                                      THEN [email |-> body.email] ELSE <<>>),
                                request.fault)
       IN IF member.thrown THEN Caught(After(session.calls, member))
          ELSE Outcome(Send([member |-> member.value]), member.st,
                       session.calls \o member.calls)

\* --------------------------------------------------------- dev.ts:308-329
PatchOrgMember(st, request, params) ==
  LET headers == toHeaders(request.headers)
      body == request.body
      session == requireOrgRole(st, headers, params.orgId, ManagerRoles,
                                request.fault)
  IN
  IF session.thrown THEN Caught(session)
  ELSE IF ~ request.hasBody THEN Caught(TypeError("role", st, session.calls))
  ELSE LET member ==
             updateMemberRole(st, headers,
                              [organizationId |-> params.orgId,
                               memberId |-> params.userId]
                                @@ (IF Has(body, "role")
                                    THEN [role |-> body.role] ELSE <<>>),
                              request.fault)
       IN IF member.thrown THEN Caught(After(session.calls, member))
          ELSE Outcome(Send([member |-> member.value]), member.st,
                       session.calls \o member.calls)

\* --------------------------------------------------------- dev.ts:332-350
GetOrgMembers(st, request, params) ==
  LET headers == toHeaders(request.headers)
      session == requireOrgRole(st, headers, params.orgId, ReaderRoles,
                                request.fault)
  IN
  IF session.thrown THEN Caught(session)
  ELSE LET organization == getFullOrganization(st, headers,
                                               [organizationId |-> params.orgId],
                                               request.fault)
       IN IF organization.thrown THEN Caught(After(session.calls, organization))
          ELSE Outcome(Send([members |-> organization.value.members]), organization.st,
                       session.calls \o organization.calls)

\* --------------------------------------------------------- dev.ts:353-370
DefaultUserLimit == 50

GetAdminUsers(st, request, params) ==
  LET headers == toHeaders(request.headers)
      session == requireAdmin(st, headers, request.fault)
      query == request.query
  IN
  IF session.thrown THEN Caught(session)
  ELSE LET users == listUsers(st, headers,
                              [limit |-> IF Has(query, "limit") /\ query.limit # 0
                                         THEN query.limit ELSE DefaultUserLimit],
                              request.fault)
       IN IF users.thrown THEN Caught(After(session.calls, users))
          ELSE Outcome(Send([users |-> users.value]), users.st,
                       session.calls \o users.calls)

\* --------------------------------------------------------- dev.ts:373-396
SessionCookie(token) ==
  <<"better-auth.session_token=" \o token \o ";", "Path=/;", "HttpOnly;",
    "SameSite=lax;", "Max-Age=604800">>

\* Variant of ImpersonationReply that puts the token in the body and in a cookie.
ImpersonationReplyBoth(as, token) ==
  Reply(200, [token |-> token], "set-cookie" :> SessionCookie(token))

\* dev.ts:386-392: the token in the body, or in a session cookie
ImpersonationReply(as, token) ==
  IF as = "jwt"
  THEN Send([token |-> token])
  ELSE Reply(200, [success |-> TRUE, message |-> "Impersonation session set"],
             "set-cookie" :> SessionCookie(token))

PostAdminImpersonate(st, request, params) ==
  LET headers == toHeaders(request.headers)
      session == requireAdmin(st, headers, request.fault)
      body == request.body
  IN
  IF session.thrown THEN Caught(session)
  ELSE IF ~ request.hasBody THEN Caught(TypeError("userId", st, session.calls))
  ELSE LET result == impersonateUser(st, headers,
                                     IF Has(body, "userId")
                                     THEN [userId |-> body.userId] ELSE <<>>,
                                     request.fault)
           cs == session.calls \o result.calls
       IN IF result.thrown THEN Caught(After(session.calls, result))
          ELSE Outcome(ImpersonationReply(OrElse(body, "as", ""),
                                          result.value.session.token),
                       result.st, cs)

\* --------------------------------------------------------- server.ts:19-22
\* app.setErrorHandler: what the app answers when a handler throws.  An error
\* of the provider carries a `status`, not the framework's `statusCode`.
ErrorHandler(e) ==
  Outcome(Reply(500, [error |-> "internal_error"], NoHeaders), e.st, e.calls)

\* --------------------------------------------------------- server.ts:63-70
\* What getSession hands back and reply.send sends: the session of the
\* principal, or null.
Null == None
SessionOf(u) ==
  IF u = NoUser THEN Null
  ELSE [user |-> [id |-> u, email |-> UserEmail(u), role |-> UserRole(u)]]

\* Variant of GetMe that answers 401 when no principal resolves.
GetMeRequiringUser(st, request) ==
  LET headers == toHeaders(request.headers)
      session == requireUser(st, headers, request.fault)
  IN IF session.thrown THEN Caught(session)
     ELSE Outcome(Send(SessionOf(session.value)), st, session.calls)

GetMe(st, request) ==
  LET headers == toHeaders(request.headers)
      session == getSession(st, headers, request.fault)
  IN IF session.thrown THEN ErrorHandler(session)
     ELSE Outcome(Send(SessionOf(session.value)), st, session.calls)

\* ------------------------------------------------ server/index.ts:69-84
\* The error handler of server/index.ts and of server/auth-standalone.ts
\* (56-63, the same text): error.statusCode || 500, and error.message ||
\* "Internal Server Error" as the message.  The failures modelled carry a
\* message and no statusCode.
StandaloneErrorHandler(e) ==
  Outcome(Reply(500,
                [message |-> IF e.message # "" THEN e.message ELSE "Internal Server Error"],
                NoHeaders),
          e.st, e.calls)
\* GET /me of server/index.ts (69-75) and server/auth-standalone.ts (48-54)
StandaloneGetMe(st, request) ==
  LET headers == toHeaders(request.headers)
      session == getSession(st, headers, request.fault)
  IN IF session.thrown THEN StandaloneErrorHandler(session)
     ELSE Outcome(Send(SessionOf(session.value)), st, session.calls)

\* ------------------------------------------- netlify/functions/auth.ts:5-8
Includes(list, v) == \E i \in DOMAIN list : list[i] = v
\* trustedOrigins[0] ?? "*"
FirstTrusted == IF trustedOrigins # <<>> THEN trustedOrigins[1] ELSE "*"

\* Variant of allowOrigin that echoes whatever origin the request names.
allowOriginEcho(origin) == IF origin = "" THEN FirstTrusted ELSE origin

\* `origin` is event.headers.origin, "" when the header is not there.
allowOrigin(origin) ==
  IF origin = "" THEN FirstTrusted
  ELSE IF Includes(trustedOrigins, origin) THEN origin ELSE FirstTrusted

\* ------------------------------------------------ the platform's Response
\* A response of the provider's protocol handler: [status, headers, text].
\* `headers` is the list of [name, value] the provider appended.  Iterating
\* the Headers object yields lower-case names, the values of one name joined
\* by ", ", but every set-cookie value on its own, in the order appended.
LowerName(name) ==
  CASE name = "Set-Cookie" -> "set-cookie"
    [] name = "Content-Type" -> "content-type"
    [] name = "Vary" -> "vary"
    [] name = "Access-Control-Allow-Origin" -> "access-control-allow-origin"
    [] OTHER -> name
RECURSIVE joinWith(_, _)
joinWith(values, sep) ==
  IF values = <<>> THEN ""
  ELSE IF Len(values) = 1 THEN values[1]
  ELSE values[1] \o sep \o joinWith(Tail(values), sep)
HeadersNamed(list, name) == SelectSeq(list, LAMBDA e : LowerName(e.name) = name)
ValuesOf(list) == [i \in DOMAIN list |-> list[i].value]
RECURSIVE HeaderEntries(_)
HeaderEntries(list) ==
  IF list = <<>> THEN <<>>
  ELSE LET name == LowerName(list[1].name) IN
       IF name = "set-cookie"
       THEN <<[key |-> name, val |-> list[1].value]>> \o HeaderEntries(Tail(list))
       ELSE <<[key |-> name, val |-> joinWith(ValuesOf(HeadersNamed(list, name)), ", ")]>>
              \o HeaderEntries(SelectSeq(Tail(list), LAMBDA e : LowerName(e.name) # name))

\* Buffer.from(text, "base64"): the bytes a base64 text stands for.  A text is
\* the sequence of its characters, a buffer the sequence of its bytes.
Base64Alphabet ==
  <<"A","B","C","D","E","F","G","H","I","J","K","L","M","N","O","P","Q","R","S","T",
    "U","V","W","X","Y","Z","a","b","c","d","e","f","g","h","i","j","k","l","m","n",
    "o","p","q","r","s","t","u","v","w","x","y","z","0","1","2","3","4","5","6","7",
    "8","9","+","/">>
Sextet(c) == (CHOOSE i \in DOMAIN Base64Alphabet : Base64Alphabet[i] = c) - 1
RECURSIVE fromSextets(_)
fromSextets(v) ==
  IF Len(v) < 2 THEN <<>>
  ELSE LET b1 == ((v[1] * 4) + (v[2] \div 16)) IN
       IF Len(v) = 2 THEN <<b1>>
       ELSE LET b2 == (((v[2] % 16) * 16) + (v[3] \div 4)) IN
            IF Len(v) = 3 THEN <<b1, b2>>
            ELSE <<b1, b2, ((v[3] % 4) * 64) + v[4]>>
                   \o fromSextets(SubSeq(v, 5, Len(v)))
fromBase64(text) ==
  LET data == SelectSeq(text, LAMBDA c : Includes(Base64Alphabet, c)) IN
  fromSextets([i \in DOMAIN data |-> Sextet(data[i])])

\* ----------------------------------------- netlify/functions/auth.ts:10-60
\* An event: [httpMethod, rawUrl, headers, hasBody, body, isBase64Encoded];
\* hasBody = FALSE is an event whose body is null, and a request handed on
\* with hasBody = FALSE is one whose body is undefined.  `res` is what auth.handler
\* answers to the request it is handed.
HeaderOf(headers, k) == IF Has(headers, k) THEN headers[k] ELSE ""
PreflightHeaders(origin) ==
  ("Access-Control-Allow-Origin" :> allowOrigin(origin))
    @@ ("Access-Control-Allow-Credentials" :> "true")
    @@ ("Access-Control-Allow-Methods" :> "GET,POST,PUT,DELETE,OPTIONS")
    @@ ("Access-Control-Allow-Headers"
          :> "Content-Type, Authorization, X-Requested-With, x-api-key")
Undefined == [undefined |-> TRUE]

\* res.headers.forEach(...), from the two CORS headers and no cookie
RECURSIVE translateHeaders(_, _)
translateHeaders(entries, acc) ==
  IF entries = <<>> THEN acc
  ELSE LET e == Head(entries) IN
       translateHeaders(Tail(entries),
                        IF e.key = "set-cookie"
                        THEN [acc EXCEPT !.setCookies = Append(@, e.val)]
                        ELSE [acc EXCEPT !.singleHeaders = (e.key :> e.val) @@ @])

\* Variant of handler that forwards every request, the preflight ones too.
handlerForwardingAll(event, res) ==
  LET origin == HeaderOf(event.headers, "origin")
      headers == [k \in {n \in DOMAIN event.headers : event.headers[n] # ""}
                    |-> event.headers[k]]
      request == [url |-> event.rawUrl, method |-> event.httpMethod, headers |-> headers,
                  hasBody |-> FALSE, body |-> <<>>]
      out == translateHeaders(HeaderEntries(res.headers),
                              [singleHeaders |->
                                 ("Access-Control-Allow-Origin" :> allowOrigin(origin))
                                   @@ ("Access-Control-Allow-Credentials" :> "true"),
                               setCookies |-> <<>>])
  IN [result |-> [statusCode |-> res.status, headers |-> out.singleHeaders,
                  multiValueHeaders |-> "Set-Cookie" :> out.setCookies,
                  body |-> res.text],
      calls |-> <<Call("auth.handler", request, "ok")>>]

\* Variant of handler that hands the cookies over as one comma-joined header.
handlerJoiningCookies(event, res) ==
  LET origin == HeaderOf(event.headers, "origin")
      out == translateHeaders(HeaderEntries(res.headers),
                              [singleHeaders |->
                                 ("Access-Control-Allow-Origin" :> allowOrigin(origin))
                                   @@ ("Access-Control-Allow-Credentials" :> "true"),
                               setCookies |-> <<>>])
  IN IF event.httpMethod = "OPTIONS"
     THEN [result |-> [statusCode |-> 200, headers |-> PreflightHeaders(origin),
                       multiValueHeaders |-> Undefined, body |-> ""],
           calls |-> <<>>]
     ELSE [result |-> [statusCode |-> res.status,
                       headers |-> IF out.setCookies = <<>> THEN out.singleHeaders
                                   ELSE ("set-cookie" :> joinWith(out.setCookies, ", "))
                                          @@ out.singleHeaders,
                       multiValueHeaders |-> Undefined,
                       body |-> res.text],
           calls |-> <<Call("auth.handler", [url |-> event.rawUrl], "ok")>>]

handler(event, res) ==
  LET origin == HeaderOf(event.headers, "origin") IN
  IF event.httpMethod = "OPTIONS"
  THEN [result |-> [statusCode |-> 200, headers |-> PreflightHeaders(origin),
                    multiValueHeaders |-> Undefined, body |-> ""],
        calls |-> <<>>]
  ELSE LET headers == [k \in {n \in DOMAIN event.headers : event.headers[n] # ""}
                         |-> event.headers[k]]
           hasBody == event.hasBody /\ event.body # <<>>
           body == IF hasBody
                   THEN (IF event.isBase64Encoded THEN fromBase64(event.body)
                         ELSE event.body)
                   ELSE <<>>
           request == [url |-> event.rawUrl, method |-> event.httpMethod,
                       headers |-> headers, hasBody |-> hasBody, body |-> body]
           out == translateHeaders(HeaderEntries(res.headers),
                                   [singleHeaders |->
                                      ("Access-Control-Allow-Origin" :> allowOrigin(origin))
                                        @@ ("Access-Control-Allow-Credentials" :> "true"),
                                    setCookies |-> <<>>])
       IN [result |-> [statusCode |-> res.status, headers |-> out.singleHeaders,
                       multiValueHeaders |->
                         IF out.setCookies # <<>> THEN "Set-Cookie" :> out.setCookies
                         ELSE Undefined,
                       body |-> res.text],
           calls |-> <<Call("auth.handler", request, "ok")>>]

\* --------------------------------------------------------- server.ts:29-55
\* request.body as the framework's content-type parsers leave it: nothing for
\* a request without a body, the text itself for text/plain, the parsed value
\* for application/json.  A JSON text is the sequence of its tokens and a
\* value is its tokens without the white space between them.
JsonWhitespace == {" ", "\n"}
JsonParse(raw) == SelectSeq(raw, LAMBDA t : t \notin JsonWhitespace)
ParsedBody(inbound) ==
  IF ~ inbound.hasBody THEN Undefined
  ELSE IF inbound.contentType = "application/json"
       THEN [kind |-> "object", value |-> JsonParse(inbound.raw)]
       ELSE [kind |-> "string", value |-> inbound.raw]
\* the values JavaScript takes as false: "", 0, false, null
Falsy(body) ==
  \/ body = Undefined
  \/ body.value \in {<<>>, <<"0">>, <<"false">>, <<"null">>, <<"\"\"">>}
\* JSON.stringify(value): its tokens, nothing between them
JsonStringify(value) == value

\* res.headers.forEach((val, key) => reply.header(key, val)): a set-cookie
\* value is added to those set before, any other value replaces.
RECURSIVE replyHeaders(_, _)
replyHeaders(entries, acc) ==
  IF entries = <<>> THEN acc
  ELSE LET e == Head(entries) IN
       replyHeaders(Tail(entries),
                    IF e.key = "set-cookie"
                    THEN (e.key :> (IF Has(acc, e.key) THEN Append(acc[e.key], e.val)
                                    ELSE <<e.val>>)) @@ acc
                    ELSE (e.key :> e.val) @@ acc)

\* The handler of /api/auth/*: `inbound` is the request as received, `res`
\* what auth.handler answers.
authRoute(inbound, res) ==
  LET requestBody == ParsedBody(inbound)
      headers == [k \in {n \in DOMAIN inbound.headers : inbound.headers[n] # ""}
                    |-> inbound.headers[k]]
      hasBody == ~ Falsy(requestBody)
      body == IF hasBody
              THEN (IF requestBody.kind = "string" THEN requestBody.value
                    ELSE JsonStringify(requestBody.value))
              ELSE <<>>
      request == [url |-> "http://" \o HeaderOf(inbound.headers, "host") \o inbound.url,
                  method |-> inbound.method, headers |-> headers,
                  hasBody |-> hasBody, body |-> body]
  IN [result |-> [statusCode |-> res.status,
                  headers |-> replyHeaders(HeaderEntries(res.headers), <<>>),
                  body |-> res.text],
      calls |-> <<Call("auth.handler", request, "ok")>>]

\* ----------------------------------------------------------- dev.ts:58-398
\* The routes registerDevEndpoints declares: method, path pattern, handler.
ParamNames == {":keyId", ":orgId", ":userId"}
Route(method, pattern, name) ==
  [method |-> method, pattern |-> pattern, handler |-> name]
DevRoutes ==
  { Route("GET",    <<"dev", "whoami">>,                          "GetWhoami"),
    Route("POST",   <<"dev", "api-keys">>,                        "PostApiKeys"),
    Route("GET",    <<"dev", "api-keys">>,                        "GetApiKeys"),
    Route("DELETE", <<"dev", "api-keys", ":keyId">>,              "DeleteApiKey"),
    Route("POST",   <<"dev", "jwt", "issue">>,                    "PostJwtIssue"),
    Route("GET",    <<"dev", "jwks.json">>,                       "GetJwksJson"),
    Route("POST",   <<"dev", "orgs">>,                            "PostOrgs"),
    Route("POST",   <<"dev", "orgs", ":orgId", "members">>,       "PostOrgMembers"),
    Route("PATCH",  <<"dev", "orgs", ":orgId", "members", ":userId">>, "PatchOrgMember"),
    Route("GET",    <<"dev", "orgs", ":orgId", "members">>,       "GetOrgMembers"),
    Route("GET",    <<"dev", "admin", "users">>,                  "GetAdminUsers"),
    Route("POST",   <<"dev", "admin", "impersonate">>,            "PostAdminImpersonate") }

\* Variant of registerDevEndpoints that registers the routes whatever the flag.
registerDevEndpointsAlways(enabled) == [hook |-> "auth", routes |-> DevRoutes]

\* What registerDevEndpoints registers on the app: with the flag off, a plugin
\* holding only the 404 hook; with it on, the authenticating hook and the routes.
registerDevEndpoints(enabled) ==
  IF ~ enabled
  THEN [hook |-> "disabled", routes |-> {}]
  ELSE [hook |-> "auth", routes |-> DevRoutes]

\* dev.ts:65-70, the hook of the disabled surface
disabledPreHandler(st, request) ==
  IF StartsWithDev(request.url)
  THEN Outcome(Reply(404, [error |-> "Not found"], NoHeaders), st, <<>>)
  ELSE Pass(st, <<>>)

\* The router: the path without its query string against the patterns.
Matches(pattern, path) ==
  /\ Len(pattern) = Len(path)
  /\ \A i \in DOMAIN pattern : pattern[i] \in ParamNames \/ pattern[i] = path[i]
Lookup(routes, request) ==
  {r \in routes : r.method = request.method /\ Matches(r.pattern, request.url.path)}
ParamsOf(pattern, path) ==
  [k \in {n \in {"keyId", "orgId", "userId"} :
            \E i \in DOMAIN pattern : pattern[i] = ":" \o n}
     |-> path[CHOOSE i \in DOMAIN pattern : pattern[i] = ":" \o k]]
\* the framework's answer to a request no route matches
NotFound(st) ==
  Outcome(Reply(404, [error |-> "Not Found", statusCode |-> 404], NoHeaders), st, <<>>)

Handle(name, st, request, params) ==
  CASE name = "GetWhoami"            -> GetWhoami(st, request, params)
    [] name = "PostApiKeys"          -> PostApiKeys(st, request, params)
    [] name = "GetApiKeys"           -> GetApiKeys(st, request, params)
    [] name = "DeleteApiKey"         -> DeleteApiKey(st, request, params)
    [] name = "PostJwtIssue"         -> PostJwtIssue(st, request, params)
    [] name = "GetJwksJson"          -> GetJwksJson(st, request, params)
    [] name = "PostOrgs"             -> PostOrgs(st, request, params)
    [] name = "PostOrgMembers"       -> PostOrgMembers(st, request, params)
    [] name = "PatchOrgMember"       -> PatchOrgMember(st, request, params)
    [] name = "GetOrgMembers"        -> GetOrgMembers(st, request, params)
    [] name = "GetAdminUsers"        -> GetAdminUsers(st, request, params)
    [] name = "PostAdminImpersonate" -> PostAdminImpersonate(st, request, params)

HandlerOf(request) ==
  LET found == Lookup(DevRoutes, request) IN
  IF found = {} THEN "none" ELSE (CHOOSE r \in found : TRUE).handler
\* request.params of a request that matches a route
Params(request) ==
  ParamsOf((CHOOSE r \in Lookup(DevRoutes, request) : TRUE).pattern, request.url.path)

\* One request through the app.  The plugin's preHandler hook runs for the
\* routes the plugin declares, and the route's handler (`handled` is what it
\* does) runs unless the hook has sent the reply; a request no route matches
\* gets the framework's 404.
\* Variant of Serve that runs the route's handler whatever the hook did.
ServeThroughHook(app, st, request, handled) ==
  IF Lookup(app.routes, request) = {} THEN NotFound(st)
  ELSE LET hook == IF app.hook = "disabled" THEN disabledPreHandler(st, request)
                   ELSE preHandler(st, request)
       IN After(hook.calls, handled)

Serve(app, st, request, handled) ==
  IF Lookup(app.routes, request) = {} THEN NotFound(st)
  ELSE LET hook == IF app.hook = "disabled" THEN disabledPreHandler(st, request)
                   ELSE preHandler(st, request)
       IN IF hook.sent THEN hook ELSE After(hook.calls, handled)

\* ------------------------------------------------------------ the inputs
Cookie(t) == "cookie" :> <<t>>
ApiKey(k) == "x-api-key" :> <<k>>
Bearer(t) == "authorization" :> <<"Bearer", t>>

Basic(t) == "authorization" :> <<"Basic", t>>

\* The credentials a request presents: none, an authorization header of another
\* scheme, a session cookie, an API key or a bearer token.
Unrecognized == {NoHeaders, Basic("x")}
Credentials ==
  Unrecognized
    \cup {Cookie(SignInToken(u)) : u \in Users}
    \cup {ApiKey(KeyId(i)) : i \in 1..MaxKeys}
    \cup {Bearer(SignInToken("A"))}

Opt(k, values) == {<<>>} \cup {k :> v : v \in values}
NoQuery == <<>>
NoBody == <<>>

Request(method, path, search, headers, query, hasBody, body, fault) ==
  [method |-> method, url |-> [path |-> path, search |-> search],
   headers |-> headers, query |-> query, hasBody |-> hasBody, body |-> body,
   fault |-> fault]
NoRequest == Request("", <<>>, "", NoHeaders, NoQuery, FALSE, NoBody, "none")
NoReply == Reply(0, <<>>, NoHeaders)

\* Requests name the keys and organizations that can exist and one that cannot.
KeyIds == {KeyId(i) : i \in 1..(MaxKeys + 1)}
OrgIds == {OrgId(i) : i \in 1..(MaxOrgs + 1)}
OrgName == <<"A", "c", " ", " ", "m", "e", "!">>

Init ==
  /\ processEnv = DevProcessEnv
  /\ env = envSchema(processEnv)
  /\ phase = "serving"
  /\ devEnabled \in BOOLEAN
  /\ apiKeys = {}
  /\ keyCount = 0
  /\ orgCount = 0
  /\ members = {}
  /\ sessions = {SignInToken(u) : u \in Users}
  /\ revoked = {}
  /\ req = NoRequest
  /\ resp = NoReply
  /\ calls = <<>>

\* What the provider stores beyond the sign-in sessions.
Records(st) ==
  st.keyCount + Cardinality(st.members) + Cardinality(st.sessions) - Cardinality(Users)
Unlimited == MaxKeys + (MaxOrgs * Cardinality(Users)) + Cardinality(Users)

\* The app takes `request` when it is handling none, and handles it: the
\* response, the calls made for it and the provider's state after it.
\* `handled` is what the handler of the request's route does, `cap` bounds the
\* records the provider stores.
Idle == req = NoRequest

Handled(request, handled, cap) ==
  /\ phase = "serving"
  /\ Idle
  /\ \E out \in {IF request.url.path = MePath THEN handled
                 ELSE Serve(registerDevEndpoints(devEnabled), ProviderState, request,
                            handled)} :
       /\ out.st.keyCount <= MaxKeys
       /\ out.st.orgCount <= MaxOrgs
       /\ Records(out.st) <= cap
       /\ req' = request
       /\ resp' = out.reply
       /\ calls' = out.calls
       /\ apiKeys' = out.st.apiKeys
       /\ keyCount' = out.st.keyCount
       /\ orgCount' = out.st.orgCount
       /\ members' = out.st.members
       /\ sessions' = out.st.sessions
       /\ UNCHANGED startVars

\* The request is over: nothing of it is kept for the next one.
RequestDone ==
  /\ req # NoRequest
  /\ req' = NoRequest
  /\ resp' = NoReply
  /\ calls' = <<>>
  /\ UNCHANGED <<startVars, apiKeys, keyCount, orgCount, members, sessions, revoked>>

\* ------------------------------------------------------------ the actions
\* One per route of the enabled surface.  `scope` is what a specification
\* exercises: the credentials and the provider failures of its requests, the
\* users its requests name, and the cap on the provider's records.
Whoami(scope) ==
  /\ devEnabled
  /\ Idle
  /\ \E h \in scope.credentials, f \in scope.faults, q \in {"", "?x=1"} :
       \E request \in {Request("GET", <<"dev", "whoami">>, q, h, NoQuery, FALSE,
                               NoBody, f)} :
         Handled(request, GetWhoami(ProviderState, request, Params(request)), scope.cap)
  /\ UNCHANGED revoked

CreateApiKey(scope) ==
  /\ devEnabled
  /\ Idle
  /\ \E h \in scope.credentials, f \in scope.faults, hasBody \in BOOLEAN,
        u \in Opt("userId", scope.targets), d \in Opt("expiresInDays", {90}),
        l \in Opt("label", {"ci"}) :
       /\ hasBody \/ (u @@ d @@ l) = NoBody
       /\ \E request \in {Request("POST", <<"dev", "api-keys">>, "", h, NoQuery,
                          hasBody, u @@ d @@ l, f)} :
            Handled(request, PostApiKeys(ProviderState, request, Params(request)), scope.cap)
  /\ UNCHANGED revoked

ListApiKeys(scope) ==
  /\ devEnabled
  /\ Idle
  /\ \E h \in scope.credentials, f \in scope.faults, q \in Opt("userId", scope.targets) :
       \E request \in {Request("GET", <<"dev", "api-keys">>, "", h, q, FALSE,
                               NoBody, f)} :
         Handled(request, GetApiKeys(ProviderState, request, Params(request)), scope.cap)
  /\ UNCHANGED revoked

RevokeApiKey(scope) ==
  /\ devEnabled
  /\ Idle
  /\ \E h \in scope.credentials, f \in scope.faults, k \in KeyIds :
       /\ \E request \in {Request("DELETE", <<"dev", "api-keys", k>>, "", h, NoQuery,
                          FALSE, NoBody, f)} :
            Handled(request, DeleteApiKey(ProviderState, request, Params(request)), scope.cap)
       /\ revoked' = IF resp'.status = 200 THEN revoked \cup {k} ELSE revoked

IssueJwt(scope) ==
  /\ devEnabled
  /\ Idle
  /\ \E h \in scope.credentials, f \in scope.faults, hasBody \in BOOLEAN,
        u \in Opt("userId", scope.targets), t \in Opt("ttlSeconds", {60}),
        a \in Opt("audience", {"orders-api"}), s \in Opt("scopes", {{"orders:read"}}) :
       /\ hasBody \/ (u @@ t @@ a @@ s) = NoBody
       /\ \E request \in {Request("POST", <<"dev", "jwt", "issue">>, "", h, NoQuery,
                          hasBody, u @@ t @@ a @@ s, f)} :
            Handled(request, PostJwtIssue(ProviderState, request, Params(request)), scope.cap)
  /\ UNCHANGED revoked

PublishKeySet(scope) ==
  /\ devEnabled
  /\ Idle
  /\ \E h \in scope.credentials, f \in scope.faults, q \in {"", "?x=1"} :
       \E request \in {Request("GET", JwksPath, q, h, NoQuery, FALSE, NoBody, f)} :
         Handled(request, GetJwksJson(ProviderState, request, Params(request)), scope.cap)
  /\ UNCHANGED revoked

CreateOrganization(scope) ==
  /\ devEnabled
  /\ Idle
  /\ \E h \in scope.credentials, f \in scope.faults, hasBody \in BOOLEAN,
        n \in Opt("name", {<<>>, OrgName}) :
       /\ hasBody \/ n = NoBody
       /\ \E request \in {Request("POST", <<"dev", "orgs">>, "", h, NoQuery, hasBody,
                                  n, f)} :
            Handled(request, PostOrgs(ProviderState, request, Params(request)), scope.cap)
  /\ UNCHANGED revoked

AddMember(scope) ==
  /\ devEnabled
  /\ Idle
  /\ \E h \in scope.credentials, f \in scope.faults, hasBody \in BOOLEAN, o \in OrgIds,
        e \in Opt("email", {UserEmail(u) : u \in scope.targets}),
        r \in Opt("role", {"admin", "member"}) :
       /\ hasBody \/ (e @@ r) = NoBody
       /\ \E request \in {Request("POST", <<"dev", "orgs", o, "members">>, "", h,
                                  NoQuery, hasBody, e @@ r, f)} :
            Handled(request, PostOrgMembers(ProviderState, request, Params(request)), scope.cap)
  /\ UNCHANGED revoked

ChangeMemberRole(scope) ==
  /\ devEnabled
  /\ Idle
  /\ \E h \in scope.credentials, f \in scope.faults, hasBody \in BOOLEAN, o \in OrgIds,
        u \in scope.targets, r \in Opt("role", OrgRoles \cup {"viewer"}) :
       /\ hasBody \/ r = NoBody
       /\ \E request \in {Request("PATCH", <<"dev", "orgs", o, "members", u>>, "", h,
                                  NoQuery, hasBody, r, f)} :
            Handled(request, PatchOrgMember(ProviderState, request, Params(request)), scope.cap)
  /\ UNCHANGED revoked

ListMembers(scope) ==
  /\ devEnabled
  /\ Idle
  /\ \E h \in scope.credentials, f \in scope.faults, o \in OrgIds :
       \E request \in {Request("GET", <<"dev", "orgs", o, "members">>, "", h, NoQuery,
                       FALSE, NoBody, f)} :
         Handled(request, GetOrgMembers(ProviderState, request, Params(request)), scope.cap)
  /\ UNCHANGED revoked

ListUsers(scope) ==
  /\ devEnabled
  /\ Idle
  /\ \E h \in scope.credentials, f \in scope.faults, l \in Opt("limit", {10}) :
       \E request \in {Request("GET", <<"dev", "admin", "users">>, "", h, l, FALSE,
                               NoBody, f)} :
         Handled(request, GetAdminUsers(ProviderState, request, Params(request)), scope.cap)
  /\ UNCHANGED revoked

Impersonate(scope) ==
  /\ devEnabled
  /\ Idle
  /\ \E h \in scope.credentials, f \in scope.faults, hasBody \in BOOLEAN,
        u \in Opt("userId", scope.targets), a \in Opt("as", {"jwt", "cookie"}) :
       /\ hasBody \/ (u @@ a) = NoBody
       /\ \E request \in {Request("POST", <<"dev", "admin", "impersonate">>, "", h, NoQuery,
                          hasBody, u @@ a, f)} :
            Handled(request,
                    PostAdminImpersonate(ProviderState, request, Params(request)), scope.cap)
  /\ UNCHANGED revoked

\* GET /me, a route of the app itself: the dev surface's flag and hook do not
\* concern it.
Me(scope) ==
  /\ Idle
  /\ \E h \in scope.credentials, f \in scope.faults \cap {"none", "session"} :
       \E request \in {Request("GET", MePath, "", h, NoQuery, FALSE, NoBody, f)} :
         Handled(request, GetMe(ProviderState, request), scope.cap)
  /\ UNCHANGED revoked

\* A request under /dev that no route of the surface matches.
UnknownRoute(scope) ==
  /\ devEnabled
  /\ Idle
  /\ \E h \in scope.credentials, m \in {"GET", "PUT"}, p \in {<<"dev">>, <<"dev", "orgs">>} :
       \E request \in {Request(m, p, "", h, NoQuery, FALSE, NoBody, "none")} :
         /\ HandlerOf(request) = "none"
         /\ Handled(request, NotFound(ProviderState), scope.cap)
  /\ UNCHANGED revoked

\* Any request under /dev while the surface is disabled.
DisabledSurface ==
  /\ ~ devEnabled
  /\ Idle
  /\ \E h \in Credentials, f \in Faults, r \in DevRoutes, q \in {"", "?x=1"} :
       LET path == [i \in DOMAIN r.pattern |->
                      CASE r.pattern[i] = ":keyId" -> KeyId(1)
                        [] r.pattern[i] = ":orgId" -> OrgId(1)
                        [] r.pattern[i] = ":userId" -> "A"
                        [] OTHER -> r.pattern[i]]
       IN \E request \in {Request(r.method, path, q, h, NoQuery, FALSE, NoBody, f)} :
            Handled(request, Handle(r.handler, ProviderState, request, Params(request)),
                    Unlimited)
  /\ UNCHANGED revoked

\* ------------------------------------------------------ the specifications
\* The whole surface, the provider holding at most MaxRecords records.
MaxRecords == 1
Surface ==
  [cap |-> MaxRecords, credentials |-> Credentials, faults |-> Faults, targets |-> Users]
\* Every credential and failure, the records bounded only by MaxKeys and MaxOrgs.
Everything ==
  [cap |-> Unlimited, credentials |-> Credentials, faults |-> Faults, targets |-> Users]
\* Session cookies against a working provider, the requests naming two of the
\* users, for the longer scenarios.
Scenario ==
  [cap |-> Unlimited,
   credentials |-> {NoHeaders} \cup {Cookie(SignInToken(u)) : u \in Users},
   faults |-> {"none"},
   targets |-> {"A", "B"}]

Next ==
  \/ Whoami(Surface)
  \/ CreateApiKey(Surface)
  \/ ListApiKeys(Surface)
  \/ RevokeApiKey(Surface)
  \/ IssueJwt(Surface)
  \/ PublishKeySet(Surface)
  \/ CreateOrganization(Surface)
  \/ AddMember(Surface)
  \/ ChangeMemberRole(Surface)
  \/ ListMembers(Surface)
  \/ ListUsers(Surface)
  \/ Impersonate(Surface)
  \/ UnknownRoute(Surface)
  \/ DisabledSurface
  \/ RequestDone

Spec == Init /\ [][Next]_vars

\* The service credentials alone, up to MaxKeys keys.
KeyNext ==
  \/ CreateApiKey(Everything)
  \/ ListApiKeys(Everything)
  \/ RevokeApiKey(Everything)
  \/ Whoami(Everything)
  \/ RequestDone

EnabledInit == Init /\ devEnabled

KeySpec == EnabledInit /\ [][KeyNext]_vars

\* The organizations alone, up to MaxOrgs organizations.
OrgNext ==
  \/ CreateOrganization(Scenario)
  \/ AddMember(Scenario)
  \/ ChangeMemberRole(Scenario)
  \/ ListMembers(Scenario)
  \/ RequestDone

OrgSpec == EnabledInit /\ [][OrgNext]_vars

\* The organizations of a user and the global admin, who may be added to them.
AdminVisitor ==
  [cap |-> Unlimited,
   credentials |-> {Cookie(SignInToken("A")), Cookie(SignInToken("R"))},
   faults |-> {"none"},
   targets |-> {"R"}]

VisitorNext ==
  \/ CreateOrganization(AdminVisitor)
  \/ AddMember(AdminVisitor)
  \/ ChangeMemberRole(AdminVisitor)
  \/ ListMembers(AdminVisitor)
  \/ RequestDone

VisitorSpec == EnabledInit /\ [][VisitorNext]_vars

\* The scheme detector alone, on every combination of the credential headers a
\* request can carry: each header absent, empty or set.
ApiKeyValues == {<<>>, <<KeyId(1)>>}
AuthorizationValues ==
  {<<>>, <<"Bearer">>, <<"Bearer", SignInToken("A")>>, <<"bearer", SignInToken("A")>>,
   <<"Basic", "x">>}
CookieValues == {<<>>, <<SignInToken("A")>>, <<SignInToken("B")>>}
HeaderCombinations ==
  {k @@ a @@ c : k \in Opt("x-api-key", ApiKeyValues),
                 a \in Opt("authorization", AuthorizationValues),
                 c \in Opt("cookie", CookieValues)}

DetectInit ==
  /\ processEnv = DevProcessEnv
  /\ env = envSchema(processEnv)
  /\ phase = "serving"
  /\ devEnabled = TRUE
  /\ apiKeys = {}
  /\ keyCount = 0
  /\ orgCount = 0
  /\ members = {}
  /\ sessions = {SignInToken(u) : u \in Users}
  /\ revoked = {}
  /\ req \in {Request("GET", <<"dev", "whoami">>, "", h, NoQuery, FALSE, NoBody, "none") :
                h \in HeaderCombinations}
  /\ resp = NoReply
  /\ calls = <<>>

\* detectAuthMode on the request's headers, its result in the reply's `mode`.
Detect ==
  /\ resp = NoReply
  /\ req # NoRequest
  /\ resp' = Send([mode |-> detectAuthMode(req.headers)])
  /\ UNCHANGED <<startVars, apiKeys, keyCount, orgCount, members, sessions, revoked,
                 req, calls>>

DetectSpec == DetectInit /\ [][Detect]_vars

\* The disabled surface alone.
DisabledInit == Init /\ ~ devEnabled

DisabledNext ==
  \/ DisabledSurface
  \/ RequestDone

DisabledSpec == DisabledInit /\ [][DisabledNext]_vars

\* The service credentials and the tokens, up to MaxKeys keys.
TokenNext ==
  \/ CreateApiKey(Everything)
  \/ ListApiKeys(Everything)
  \/ IssueJwt(Everything)
  \/ PublishKeySet(Everything)
  \/ RequestDone

TokenSpec == EnabledInit /\ [][TokenNext]_vars

\* The three credential schemes: the API keys, the organizations their
\* owners found, and the routes that tell who is calling.
Working ==
  [cap |-> Unlimited, credentials |-> Credentials, faults |-> {"none"}, targets |-> Users]

SchemeNext ==
  \/ CreateApiKey(Working)
  \/ CreateOrganization(Working)
  \/ Whoami(Working)
  \/ Me(Working)
  \/ RequestDone

SchemeSpec == EnabledInit /\ [][SchemeNext]_vars

\* The admin operations alone.
AdminNext ==
  \/ ListUsers(Everything)
  \/ Impersonate(Everything)
  \/ RequestDone

AdminSpec == EnabledInit /\ [][AdminNext]_vars

\* The entry points and their last resort: /me of server.ts and of the
\* standalone servers, against a provider that may fail.
StandaloneMe(scope) ==
  /\ Idle
  /\ \E h \in scope.credentials, f \in scope.faults \cap {"none", "session"} :
       \E request \in {Request("GET", MePath, "", h, NoQuery, FALSE, NoBody, f)} :
         Handled(request, StandaloneGetMe(ProviderState, request), scope.cap)
  /\ UNCHANGED revoked

EntryNext ==
  \/ CreateApiKey(Everything)
  \/ Me(Everything)
  \/ StandaloneMe(Everything)
  \/ RequestDone

EntrySpec == EnabledInit /\ [][EntryNext]_vars

\* ------------------------------------------------- the serverless adapter
\* The number of Set-Cookie headers one provider response carries, at most.
MaxCookies == 2
AppOrigin == "https://app.example"
AdminOrigin == "https://admin.example"
EvilOrigin == "https://evil.example"
\* TRUSTED_ORIGINS as deployed: unset, empty, commas only, two origins.
AdapterEnvs ==
  { DevProcessEnv,
    DevProcessEnv @@ ("TRUSTED_ORIGINS" :> <<>>),
    DevProcessEnv @@ ("TRUSTED_ORIGINS" :> <<" ", ",">>),
    DevProcessEnv @@ ("TRUSTED_ORIGINS" :> <<AppOrigin, ",", " ", AdminOrigin>>) }
AdapterInit ==
  /\ processEnv \in AdapterEnvs
  /\ env = envSchema(processEnv)
  /\ phase = "serving"
  /\ devEnabled = FALSE
  /\ apiKeys = {}
  /\ keyCount = 0
  /\ orgCount = 0
  /\ members = {}
  /\ sessions = {}
  /\ revoked = {}
  /\ req = NoRequest
  /\ resp = NoReply
  /\ calls = <<>>

Origins == {"", "*", LocalUrl, AppOrigin, AdminOrigin, EvilOrigin}
EventHeaders ==
  {<<>>} \cup {"origin" :> o : o \in Origins}
         \cup {("origin" :> AppOrigin) @@ ("cookie" :> "sid=abc")}
\* no body, the empty body, "hi" as text and "hi" in base64
EventBodies ==
  { [hasBody |-> FALSE, body |-> <<>>, isBase64Encoded |-> FALSE],
    [hasBody |-> TRUE, body |-> <<>>, isBase64Encoded |-> FALSE],
    [hasBody |-> TRUE, body |-> <<"h", "i">>, isBase64Encoded |-> FALSE],
    [hasBody |-> TRUE, body |-> <<"a", "G", "k", "=">>, isBase64Encoded |-> TRUE] }
EventUrls ==
  {"https://auth.example/api/auth/sign-in/email", "https://auth.example/dev/whoami"}
Event(method, url, h, b) ==
  [httpMethod |-> method, rawUrl |-> url,
   headers |-> h, hasBody |-> b.hasBody, body |-> b.body,
   isBase64Encoded |-> b.isBase64Encoded]

CookieA == "sid=abc; Expires=Wed, 21 Oct 2026 07:28:00 GMT; HttpOnly"
CookieB == "csrf=xyz; Path=/"
CookieLists == UNION {[1..n -> {CookieA, CookieB}] : n \in 0..MaxCookies}
Header(name, value) == [name |-> name, value |-> value]
OtherHeaders ==
  { <<>>,
    <<Header("Content-Type", "application/json")>>,
    <<Header("content-type", "application/json"),
      Header("access-control-allow-origin", EvilOrigin)>>,
    <<Header("Vary", "Origin"), Header("vary", "Accept")>> }
\* What the provider's protocol handler may answer.
ProviderResponses ==
  { [status |-> status, headers |-> list, text |-> "{}"] :
      status \in {200, 401},
      list \in UNION { { others \o [i \in DOMAIN cookies |-> Header(name, cookies[i])],
                          [i \in DOMAIN cookies |-> Header(name, cookies[i])] \o others } :
                        others \in OtherHeaders, cookies \in CookieLists,
                        name \in {"Set-Cookie", "set-cookie"} } }
NoResponse == [status |-> 0, headers |-> <<>>, text |-> ""]

Invoked(event, res, out) ==
  /\ req' = [event |-> event, res |-> res]
  /\ resp' = out.result
  /\ calls' = out.calls
  /\ UNCHANGED <<startVars, idpVars, revoked>>

\* An OPTIONS event
Preflight ==
  /\ phase = "serving"
  /\ Idle
  /\ \E url \in EventUrls, h \in EventHeaders, b \in EventBodies :
       \E event \in {Event("OPTIONS", url, h, b)} :
         Invoked(event, NoResponse, handler(event, NoResponse))

\* Any other event: the provider answers `res`.  A GET event carries no body.
Forward ==
  /\ phase = "serving"
  /\ Idle
  /\ \E method \in {"GET", "POST"}, url \in EventUrls, h \in EventHeaders,
        b \in EventBodies, res \in ProviderResponses :
       \E event \in {Event(method, url, h, b)} :
         /\ method = "GET" => b.body = <<>>
         /\ Invoked(event, res, handler(event, res))

AdapterNext ==
  \/ Preflight
  \/ Forward
  \/ RequestDone

AdapterSpec == AdapterInit /\ [][AdapterNext]_vars

\* ------------------------------------------------------------ the startup
\* The flag of the dev surface: unset is off, "true" and "false" are the two
\* values it takes, anything else is no boolean.
devFlag(pe) ==
  IF ~ Has(pe, "ENABLE_DEV_ENDPOINTS") THEN [ok |-> TRUE, value |-> FALSE]
  ELSE IF pe["ENABLE_DEV_ENDPOINTS"] \in {"true", "false"}
       THEN [ok |-> TRUE, value |-> pe["ENABLE_DEV_ENDPOINTS"] = "true"]
       ELSE [ok |-> FALSE, value |-> FALSE]

ShortSecret == "too-short-secret"
LongSecret == "a-signing-secret-of-thirty-chars"
Setting(k, choice) == IF choice = None THEN <<>> ELSE k :> choice[1]
\* The environments the process is started in: every option unset, well set
\* or badly set.
StartupEnvs ==
  { Setting("PORT", port) @@ Setting("BETTER_AUTH_URL", url)
      @@ Setting("BETTER_AUTH_SECRET", secret) @@ Setting("TRUSTED_ORIGINS", origins)
      @@ Setting("DATABASE_URL", database) @@ Setting("ENABLE_DEV_ENDPOINTS", flag) :
      port \in {None, Some("8080"), Some(""), Some("abc"), Some("99999")},
      url \in {None, Some("https://auth.example.com"), Some("auth.example.com")},
      secret \in {None, Some(ShortSecret), Some(LongSecret)},
      origins \in {None, Some(<<>>)},
      database \in {None, Some(Database), Some("db:5432/auth")},
      flag \in {None, Some("true"), Some("false"), Some("yes")} }

StartupInit ==
  /\ processEnv \in StartupEnvs
  /\ env = NotLoaded
  /\ phase = "starting"
  /\ devEnabled = FALSE
  /\ apiKeys = {}
  /\ keyCount = 0
  /\ orgCount = 0
  /\ members = {}
  /\ sessions = {SignInToken(u) : u \in Users}
  /\ revoked = {}
  /\ req = NoRequest
  /\ resp = NoReply
  /\ calls = <<>>

\* env.ts is evaluated when server.ts imports it: parse throws on the first
\* issue and the process ends before anything listens.
LoadEnv ==
  /\ phase = "starting"
  /\ \E parsed \in {envSchema(processEnv)}, flag \in {devFlag(processEnv)} :
       /\ env' = parsed
       /\ devEnabled' = (parsed.ok /\ flag.ok /\ flag.value)
       /\ phase' = IF parsed.ok /\ flag.ok THEN "loaded" ELSE "failed"
  /\ UNCHANGED <<processEnv, idpVars, revoked, req, resp, calls>>

\* app.listen({ port: env.PORT }) binds the port
Listen ==
  /\ phase = "loaded"
  /\ env.PORT \in 0..65535
  /\ phase' = "serving"
  /\ UNCHANGED <<processEnv, env, devEnabled, idpVars, revoked, req, resp, calls>>

\* app.listen rejects (a port out of range, a port in use): process.exit(1)
ListenFails ==
  /\ phase = "loaded"
  /\ phase' = "failed"
  /\ UNCHANGED <<processEnv, env, devEnabled, idpVars, revoked, req, resp, calls>>

StartupNext ==
  \/ LoadEnv
  \/ Listen
  \/ ListenFails
  \/ Me(Working)
  \/ Whoami(Working)
  \/ RequestDone

StartupSpec == StartupInit /\ [][StartupNext]_vars

\* ----------------------------------------------------- the request bodies
\* The number of bytes of an encoded body, at most.
MaxBytes == 3
ByteStrings == UNION {[1..n -> {0, 104, 255}] : n \in 0..MaxBytes}
\* What the serverless runtime does to a binary body: base64, padded.
RECURSIVE toBase64(_)
toBase64(b) ==
  IF b = <<>> THEN <<>>
  ELSE LET c1 == Base64Alphabet[(b[1] \div 4) + 1] IN
       IF Len(b) = 1
       THEN <<c1, Base64Alphabet[((b[1] % 4) * 16) + 1], "=", "=">>
       ELSE LET c2 == Base64Alphabet[((b[1] % 4) * 16) + (b[2] \div 16) + 1] IN
            IF Len(b) = 2
            THEN <<c1, c2, Base64Alphabet[((b[2] % 16) * 4) + 1], "=">>
            ELSE <<c1, c2, Base64Alphabet[((b[2] % 16) * 4) + (b[3] \div 64) + 1],
                   Base64Alphabet[(b[3] % 64) + 1]>>
                   \o toBase64(SubSeq(b, 4, Len(b)))

\* An event whose body the runtime encoded
ForwardEncoded ==
  /\ phase = "serving"
  /\ Idle
  /\ \E bytes \in ByteStrings, res \in {[status |-> 200, headers |-> <<>>, text |-> "{}"]} :
       \E event \in {Event("POST", "https://auth.example/api/auth/sign-in/email",
                            "content-type" :> "application/octet-stream",
                            [hasBody |-> TRUE, body |-> toBase64(bytes),
                             isBase64Encoded |-> TRUE])} :
         Invoked(event, res, handler(event, res))

\* The bodies a request to /api/auth/* arrives with: none, a text, JSON texts
\* written tightly and loosely, and the JSON texts 0, false and null.
Inbounds ==
  { [method |-> method, url |-> "/api/auth/sign-in/email",
     headers |-> ("host" :> "auth.example") @@ ("content-type" :> b.contentType),
     hasBody |-> b.hasBody, contentType |-> b.contentType, raw |-> b.raw] :
      method \in {"POST"},
      b \in {[hasBody |-> FALSE, contentType |-> "", raw |-> <<>>]}
              \cup {[hasBody |-> TRUE, contentType |-> "text/plain", raw |-> raw] :
                      raw \in {<<"h", "i">>, <<"h", " ", "i">>}}
              \cup {[hasBody |-> TRUE, contentType |-> "application/json", raw |-> raw] :
                      raw \in {<<"{", "\"a\"", ":", "1", "}">>,
                                <<"{", " ", "\"a\"", ":", " ", "1", " ", "}">>,
                                <<"0">>, <<"false">>, <<"null">>}} }

\* A request to /api/auth/* of server.ts
Proxy ==
  /\ phase = "serving"
  /\ Idle
  /\ \E inbound \in Inbounds, res \in ProviderResponses :
       \E out \in {authRoute(inbound, res)} :
         /\ req' = [inbound |-> inbound, res |-> res]
         /\ resp' = out.result
         /\ calls' = out.calls
         /\ UNCHANGED <<startVars, idpVars, revoked>>

BodyNext ==
  \/ Forward
  \/ ForwardEncoded
  \/ Proxy
  \/ RequestDone

BodySpec == AdapterInit /\ [][BodyNext]_vars

\* ----------------------------------------------------------- observations
\* A request has been answered and is not yet over.
Answered == req # NoRequest
\* The route the answered request matched ("none" when there is none).
Handler == HandlerOf(req)
CallsOf(ops) == {i \in DOMAIN calls : calls[i].op \in ops}
\* The i-th call of the request resolved a principal.
Resolved(i) == calls[i].op = "getSession" /\ calls[i].result \in Users
SomeResolution == \E i \in DOMAIN calls : Resolved(i)
\* The principal the provider resolved for the request, NoUser when none.
Principal ==
  IF SomeResolution
  THEN calls[CHOOSE i \in DOMAIN calls : Resolved(i)].result
  ELSE NoUser

ErrorBody(message) == [error |-> message]
HasRole(rows, u, o, roles) ==
  \E m \in rows : m.organizationId = o /\ m.userId = u /\ m.role \in roles

\* ------------------------------------------------------------------- C1
StateChanging ==
  {"createApiKey", "deleteApiKey", "fetch /api/auth/token", "createOrganization",
   "organizationInvite", "updateMemberRole", "impersonateUser"}

AuthorizedBeforeMutation ==
  \A i \in CallsOf(StateChanging) : \E j \in 1..(i - 1) : Resolved(j)

\* C1: every state-changing call to the Identity Provider or the Organization
\* Directory made for a request comes after a successful principal resolution
\* made for the same request, and the provider's keys, organizations,
\* memberships and sessions change only in a request that resolved a principal.
C1_MutationNeedsPrincipal ==
  [][ /\ AuthorizedBeforeMutation'
      /\ (idpVars' # idpVars => SomeResolution') ]_vars

C1_Witness ==
  /\ Answered
  /\ \E i \in CallsOf(StateChanging) :
       /\ calls[i].op = "createOrganization"
       /\ calls[i].result = "ok"
       /\ \E j \in 1..(i - 1) : Resolved(j)
  /\ orgCount = 1

\* ------------------------------------------------------------------- C2
NoCredential(headers) ==
  /\ ~ Has(headers, "cookie")
  /\ ~ Has(headers, "x-api-key")
  /\ ~ (Has(headers, "authorization") /\ StartsWithBearer(headers["authorization"]))

ProtectedHandlers == {r.handler : r \in DevRoutes} \ {"GetJwksJson"}

\* C2: on the enabled surface, a request to any route but /dev/jwks.json that
\* carries no session cookie, no x-api-key header and no Bearer authorization
\* header is answered 401 "Authentication required", whatever its route,
\* method or body, the provider having answered the session lookup with no
\* session; nothing but that lookup is asked of the provider.
C2_NoCredentialIs401 ==
  (devEnabled /\ Answered /\ Handler \in ProtectedHandlers
     /\ NoCredential(req.headers) /\ req.fault # "session")
  => /\ resp.status = 401
     /\ resp.body = ErrorBody("Authentication required")
     /\ calls = <<Call("getSession", <<>>, "null")>>

C2_Witness ==
  /\ devEnabled
  /\ Answered
  /\ Handler = "PostOrgs"
  /\ req.headers = NoHeaders
  /\ req.hasBody
  /\ resp.status = 401

\* ------------------------------------------------------------------- C3
\* C3: with the flag off, every request under /dev, GET /dev/jwks.json
\* included, is answered 404, no call is made to the provider and the
\* provider's state stays what it was at start.
C3_DisabledIs404 ==
  ~ devEnabled
  => /\ Answered => (resp.status = 404 /\ calls = <<>>)
     /\ apiKeys = {} /\ keyCount = 0 /\ orgCount = 0 /\ members = {}
     /\ sessions = {SignInToken(u) : u \in Users}

C3_Witness ==
  /\ ~ devEnabled
  /\ Answered
  /\ req.url.path = JwksPath
  /\ req.url.search = ""
  /\ resp.status = 404

\* ------------------------------------------------------------------- C4
OrgHandlers == {"PostOrgMembers", "PatchOrgMember", "GetOrgMembers"}
RolesAsked(name) ==
  IF name = "GetOrgMembers" THEN {"owner", "admin", "member"} ELSE {"owner", "admin"}
Insufficient == ErrorBody("Insufficient organization permissions")

\* C4: for an authenticated principal, requireOrgRole throws 403 when the
\* principal has no membership row in the organization asked for with one of
\* the allowed roles, and returns exactly when it has one: a row in another
\* organization or with another role does not count.  The organization routes
\* answer accordingly: 403 without touching the memberships when the check
\* fails, and never that 403 when it passes.
OrgRoleDecision ==
  \A h \in Credentials, o \in OrgIds, roles \in SUBSET OrgRoles :
    LET u == SessionUser(ProviderState, h)
        r == requireOrgRole(ProviderState, h, o, roles, "none")
    IN u # NoUser
       => /\ r.thrown <=> ~ HasRole(members, u, o, roles)
          /\ r.thrown => (r.hasStatus /\ r.status = 403)

OrgRouteDecision ==
  (Idle /\ HandlerOf(req') \in OrgHandlers /\ Principal' # NoUser)
  => IF HasRole(members, Principal', req'.url.path[3], RolesAsked(HandlerOf(req')))
     THEN resp'.body # Insufficient
     ELSE /\ resp'.status = 403
          /\ resp'.body = Insufficient
          /\ members' = members

C4_OrgRoleCheck == [](Idle => OrgRoleDecision) /\ [][OrgRouteDecision]_vars

C4_Witness ==
  /\ Answered
  /\ Handler = "GetOrgMembers"
  /\ req.url.path[3] = OrgId(2)
  /\ Principal = "A"
  /\ HasRole(members, "A", OrgId(1), {"owner"})
  /\ resp.status = 403
  /\ resp.body = Insufficient

\* ------------------------------------------------------------------- C5
AdminHandlers == {"GetAdminUsers", "PostAdminImpersonate"}

\* C5: requireAdmin throws 401 when no principal resolves, 403 when the
\* principal's global role is not admin, and returns only for an admin; the
\* admin routes answer 401 and 403 in those cases without calling listUsers
\* or impersonateUser, and answer 200 only to an admin.
C5_AdminCheck ==
  /\ \A h \in Credentials :
       LET u == SessionUser(ProviderState, h)
           r == requireAdmin(ProviderState, h, "none")
       IN /\ u = NoUser => (r.thrown /\ r.status = 401)
          /\ (u # NoUser /\ UserRole(u) # "admin") => (r.thrown /\ r.status = 403)
          /\ ~ r.thrown <=> (u # NoUser /\ UserRole(u) = "admin")
  /\ (Answered /\ Handler \in AdminHandlers /\ req.fault # "session")
     => /\ Principal = NoUser
           => (resp.status = 401 /\ resp.body = ErrorBody("Authentication required"))
        /\ (Principal # NoUser /\ UserRole(Principal) # "admin")
           => (resp.status = 403 /\ resp.body = ErrorBody("Admin access required"))
        /\ UserRole(Principal) # "admin"
           => CallsOf({"listUsers", "impersonateUser"}) = {}
        /\ resp.status = 200 => UserRole(Principal) = "admin"

C5_Witness ==
  /\ Answered
  /\ Handler = "GetAdminUsers"
  /\ Principal = "B"
  /\ resp.status = 403
  /\ CallsOf({"listUsers"}) = {}

Mode(body) == IF Has(body, "as") THEN body.as ELSE ""

\* C7: POST /dev/admin/impersonate calls impersonateUser and answers 200 only
\* for a global admin; an admin naming a user is, the provider working,
\* answered 200; with as = "jwt" the body carries the token and no set-cookie
\* header is set; with as = "cookie" the set-cookie header carries the session
\* cookie and the body carries no token.
C7_Impersonate ==
  (Answered /\ Handler = "PostAdminImpersonate")
  => /\ UserRole(Principal) # "admin"
        => (resp.status # 200 /\ CallsOf({"impersonateUser"}) = {}
            /\ ~ Has(resp.headers, "set-cookie"))
     /\ (UserRole(Principal) = "admin" /\ req.fault = "none" /\ Has(req.body, "userId"))
        => resp.status = 200
     /\ (resp.status = 200 /\ Mode(req.body) = "jwt")
        => /\ resp.body = [token |-> ImpersonationToken(req.body.userId)]
           /\ ~ Has(resp.headers, "set-cookie")
     /\ (resp.status = 200 /\ Mode(req.body) = "cookie")
        => /\ resp.headers
                = ("set-cookie" :> SessionCookie(ImpersonationToken(req.body.userId)))
           /\ ~ Has(resp.body, "token")
           /\ resp.body = [success |-> TRUE, message |-> "Impersonation session set"]

C7_Witness ==
  /\ Answered
  /\ Handler = "PostAdminImpersonate"
  /\ Principal = "R"
  /\ Mode(req.body) = "cookie"
  /\ resp.status = 200
  /\ Has(resp.headers, "set-cookie")

\* ------------------------------------------------------------------- C8
ApiKeyPresent(headers) == Has(headers, "x-api-key") /\ Len(headers["x-api-key"]) > 0
BearerPresent(headers) ==
  /\ Has(headers, "authorization")
  /\ Len(headers["authorization"]) > 1
  /\ Head(headers["authorization"]) = "Bearer"

\* C8: the detector answers apiKey whenever the request carries an API key,
\* a Bearer authorization header or a cookie being there or not; bearer when
\* it carries no API key but a Bearer authorization header, a cookie being
\* there or not; and cookie exactly when it carries neither.
C8_Precedence ==
  (Answered /\ Has(resp.body, "mode"))
  => LET mode == resp.body.mode
         h == req.headers
     IN /\ ApiKeyPresent(h) => mode = "apiKey"
        /\ (~ ApiKeyPresent(h) /\ BearerPresent(h)) => mode = "bearer"
        /\ mode = "cookie" <=> (~ ApiKeyPresent(h) /\ ~ BearerPresent(h))

C8_Witness ==
  /\ Answered
  /\ ApiKeyPresent(req.headers)
  /\ BearerPresent(req.headers)
  /\ Has(req.headers, "cookie") /\ req.headers["cookie"] # <<>>
  /\ Has(resp.body, "mode")
  /\ resp.body.mode = "apiKey"

\* ------------------------------------------------------------------- C9
RoleOf(rows, u, o) ==
  {m.role : m \in {x \in rows : x.organizationId = o /\ x.userId = u}}

\* C9: in an organization a owns and b is a member of (a having created it and
\* added b as "member"), PATCH /dev/orgs/:orgId/members/a from b is answered
\* 403 and leaves every membership as it was; the same request from a, with a
\* role the directory knows and the directory working, is answered 200 and
\* a's role is the one asked for.
C9_MemberCannotChangeOwner ==
  [][ (Idle /\ HandlerOf(req') = "PatchOrgMember")
      => LET o == req'.url.path[3]
             a == req'.url.path[5]
         IN \A b \in Users \ {a} :
              (RoleOf(members, a, o) = {"owner"} /\ RoleOf(members, b, o) = {"member"})
              => /\ Principal' = b
                    => (resp'.status = 403 /\ members' = members)
                 /\ (Principal' = a /\ req'.fault = "none"
                       /\ Has(req'.body, "role") /\ req'.body.role \in OrgRoles)
                    => /\ resp'.status = 200
                       /\ RoleOf(members', a, o) = {req'.body.role}
                       /\ RoleOf(members', b, o) = {"member"} ]_vars

C9_Witness ==
  /\ Answered
  /\ Handler = "PatchOrgMember"
  /\ req.url.path[3] = OrgId(1)
  /\ req.url.path[5] = "A"
  /\ Principal = "B"
  /\ RoleOf(members, "A", OrgId(1)) = {"owner"}
  /\ RoleOf(members, "B", OrgId(1)) = {"member"}
  /\ resp.status = 403

\* ------------------------------------------------------------------ C10
\* C10: a key asked for with expiresInDays = 90 is handed to the provider with
\* expiresIn = 7776000 seconds and carries that expiry in the listings; a
\* successful listing of a user's keys is exactly the user's keys that were
\* minted and not revoked, so it includes a key from its creation on and never
\* after the DELETE of its id was answered with success.
C10_KeyLifecycle ==
  /\ (Answered /\ Handler = "PostApiKeys" /\ Has(req.body, "expiresInDays")
        /\ req.body.expiresInDays = 90)
     => /\ \A i \in CallsOf({"createApiKey"}) : calls[i].args.expiresIn = <<7776000>>
        /\ resp.status = 200
           => \E k \in apiKeys : k.id = resp.body.keyId /\ k.expiresAt = <<7776000>>
  /\ \A i \in 1..keyCount :
       (KeyId(i) \in revoked) <=> ~ (\E k \in apiKeys : k.id = KeyId(i))
  /\ (Answered /\ Handler = "GetApiKeys" /\ resp.status = 200)
     => LET target == OrElse(req.query, "userId", Principal) IN
        /\ resp.body.keys = {k \in apiKeys : k.userId = target}
        /\ \A k \in resp.body.keys : k.id \notin revoked

C10_Witness ==
  /\ Answered
  /\ Handler = "GetApiKeys"
  /\ Principal = "A"
  /\ resp.status = 200
  /\ revoked = {KeyId(1)}
  /\ resp.body.keys = {}

\* ------------------------------------------------------------------ C11
TargetedHandlers == {"GetApiKeys", "PostJwtIssue"}
\* where the request names its target user: the query of the listing, the body
\* of the token request
Named == IF Handler = "GetApiKeys" THEN req.query ELSE req.body
TargetedDelegates == {"listApiKeys", "fetch /api/auth/token"}

\* C11: GET /dev/api-keys and POST /dev/jwt/issue from an authenticated
\* principal.  Naming another user without being a global admin is answered
\* 403 and neither listApiKeys nor the token request is made.  Naming nobody,
\* the listing is asked for the caller's keys and answers them, the token is
\* signed for the caller, and, the provider working and the token request
\* carrying a body, the answer is 200.
C11_TargetDefaultsToCaller ==
  (Answered /\ Handler \in TargetedHandlers /\ Principal # NoUser)
  => /\ (Has(Named, "userId") /\ Named.userId # Principal /\ UserRole(Principal) # "admin")
        => /\ resp.status = 403
           /\ CallsOf(TargetedDelegates) = {}
     /\ ~ Has(Named, "userId")
        => /\ \A i \in CallsOf({"listApiKeys"}) : calls[i].args.userId = Principal
           /\ (Handler = "GetApiKeys" /\ resp.status = 200)
              => resp.body.keys = {k \in apiKeys : k.userId = Principal}
           /\ (Handler = "PostJwtIssue" /\ resp.status = 200)
              => resp.body.token.sub = Principal
           /\ (req.fault = "none" /\ (Handler = "PostJwtIssue" => req.hasBody))
              => resp.status = 200

C11_Witness ==
  /\ Answered
  /\ Handler = "PostJwtIssue"
  /\ Principal = "A"
  /\ req.body = ("userId" :> "B")
  /\ resp.status = 403
  /\ CallsOf(TargetedDelegates) = {}

\* ------------------------------------------------------------------ C12
\* C12: on the enabled surface a request for /dev/jwks.json is served without
\* any principal being looked up: it is never answered 401 and, the provider's
\* key-set endpoint answering, it gets the key-set document, credentials or
\* not.  A request to any other route for which no principal resolves is
\* answered 401 (500 when the lookup itself fails) and nothing but the lookup
\* is asked of the provider.
C12_JwksIsPublic ==
  (devEnabled /\ Answered)
  => /\ (Handler = "GetJwksJson" /\ req.url.search = "")
        => /\ resp.status # 401
           /\ CallsOf({"getSession"}) = {}
           /\ req.fault \in {"none", "session"}
              => (resp.status = 200 /\ resp.body = Jwks)
     /\ (Handler \in ProtectedHandlers /\ Principal = NoUser)
        => /\ resp.status = IF req.fault = "session" THEN 500 ELSE 401
           /\ Len(calls) = 1
           /\ calls[1].op = "getSession"

C12_Witness ==
  /\ devEnabled
  /\ Answered
  /\ Handler = "GetJwksJson"
  /\ req.url.search = ""
  /\ req.headers = NoHeaders
  /\ resp.status = 200
  /\ resp.body = Jwks

\* ------------------------------------------------------------------ C13
IsMe == req.method = "GET" /\ req.url.path = MePath
\* The ways principal p can present themselves, one scheme at a time: the
\* session cookie, the session token as a bearer token, an API key of theirs.
Presentations(p) ==
  {Cookie(SignInToken(p)), Bearer(SignInToken(p))}
    \cup {ApiKey(k.id) : k \in {x \in apiKeys : x.userId = p}}
Decision(r) == [thrown |-> r.thrown, status |-> r.status, principal |-> r.value]
MeRequest(h) == Request("GET", MePath, "", h, NoQuery, FALSE, NoBody, "none")

SameDecisions ==
  \A p \in Users : \A h1 \in Presentations(p) :
       /\ requireUser(ProviderState, toHeaders(h1), "none").value = p
       /\ GetMe(ProviderState, MeRequest(h1)).reply = Send(SessionOf(p))
       /\ \A h2 \in Presentations(p) :
            /\ Decision(requireUser(ProviderState, toHeaders(h1), "none"))
                 = Decision(requireUser(ProviderState, toHeaders(h2), "none"))
            /\ Decision(requireAdmin(ProviderState, toHeaders(h1), "none"))
                 = Decision(requireAdmin(ProviderState, toHeaders(h2), "none"))
            /\ \A o \in OrgIds, roles \in SUBSET OrgRoles :
                 Decision(requireOrgRole(ProviderState, toHeaders(h1), o, roles, "none"))
                   = Decision(requireOrgRole(ProviderState, toHeaders(h2), o, roles, "none"))

\* C13: whichever single scheme a principal presents themselves with (session
\* cookie, API key, bearer token), requireUser resolves the same principal,
\* requireAdmin and requireOrgRole (for every organization and every set of
\* roles) decide the same, and GET /me and GET /dev/whoami answer that
\* principal's id, email and role.
C13_SchemeTransparency ==
  /\ Idle => SameDecisions
  /\ \A p \in Users :
       (Answered /\ req.headers \in Presentations(p) /\ req.fault = "none")
       => /\ IsMe => resp = Send(SessionOf(p))
          /\ Handler = "GetWhoami"
             => (resp.status = 200 /\ resp.body.user = SessionOf(p).user)

\* A owns an organization and an API key, and /me has just answered the key
\* with A's session.
C13_Witness ==
  /\ Answered
  /\ IsMe
  /\ req.headers = ApiKey(KeyId(1))
  /\ resp.body = SessionOf("A")
  /\ HasRole(members, "A", OrgId(1), {"owner"})

\* ------------------------------------------------------------------ C14
\* The delegate call of the answered request failed.
DelegateFailed ==
  /\ Faulty(req.fault)
  /\ \E i \in DOMAIN calls : calls[i].op # "getSession" /\ calls[i].result = "throw"

\* C14: when the delegate call of a request fails with a typed failure, the
\* response carries the failure's status and message; when it fails with an
\* untyped failure, the response is 500 with the message "internal error", not
\* the delegate's own.
C14_DelegateFailureMapping ==
  (Answered /\ DelegateFailed)
  => IF req.fault = "delegateTyped"
     THEN resp.status = 502 /\ resp.body = ErrorBody("Bad gateway")
     ELSE resp.status = 500 /\ resp.body = ErrorBody("internal error")

\* ------------------------------------------------------------------ C15
\* The answered request lacks a field its operation requires, or carries a
\* malformed one.
InvalidInput ==
  \/ Handler = "PostOrgs" /\ (~ Has(req.body, "name") \/ req.body.name = <<>>)
  \/ Handler = "PatchOrgMember" /\ (~ Has(req.body, "role") \/ req.body.role \notin OrgRoles)
  \/ Handler = "PostOrgMembers" /\ ~ Has(req.body, "email")
  \/ Handler = "PostAdminImpersonate" /\ ~ Has(req.body, "userId")
\* The guard of the request's route let the request through.
Authorized == Principal # NoUser /\ resp.status \notin {401, 403}
Delegates ==
  {"createOrganization", "organizationInvite", "updateMemberRole", "impersonateUser"}

\* C15: an authorized request whose body lacks a required field or carries a
\* malformed one is answered 400 and its delegate is not called.
C15_InvalidInputIs400 ==
  (Answered /\ req.fault = "none" /\ req.hasBody /\ Authorized /\ InvalidInput)
  => /\ resp.status = 400
     /\ CallsOf(Delegates) = {}

\* ------------------------------------------------------------------ C16
\* The adapter answered an event it handed to the provider.
Forwarded == Answered /\ req.event.httpMethod # "OPTIONS"
\* The Set-Cookie values the provider appended to its response, in order.
CookiesOf(res) == ValuesOf(HeadersNamed(res.headers, "set-cookie"))
\* C16: when the provider's response carries n >= 1 Set-Cookie values, the
\* adapter's result carries exactly those n values, one entry each and in
\* the same order, under multiValueHeaders["Set-Cookie"]; its single-valued
\* header map has no Set-Cookie entry and no value made of joined cookies.
C16_CookiesPreserved ==
  (Forwarded /\ CookiesOf(req.res) # <<>>) =>
    /\ resp.multiValueHeaders = ("Set-Cookie" :> CookiesOf(req.res))
    /\ Len(resp.multiValueHeaders["Set-Cookie"]) = Len(CookiesOf(req.res))
    /\ \A k \in DOMAIN resp.headers :
         /\ LowerName(k) # "set-cookie"
         /\ resp.headers[k] # joinWith(CookiesOf(req.res), ", ")
C16_Witness ==
  /\ Forwarded
  /\ CookiesOf(req.res) = <<CookieB, CookieA>>
  /\ resp.multiValueHeaders = ("Set-Cookie" :> <<CookieB, CookieA>>)
  /\ DOMAIN resp.headers # {}

\* ------------------------------------------------------------------ C17
\* The Origin header of the answered event, "" when there is none.
OriginSent == HeaderOf(req.event.headers, "origin")
Trusted(origin) == \E i \in DOMAIN trustedOrigins : trustedOrigins[i] = origin
Fallback == IF trustedOrigins = <<>> THEN "*" ELSE trustedOrigins[1]
AllowedOrigin == resp.headers["Access-Control-Allow-Origin"]
\* The policy as first stated: the answer names the request's Origin if and
\* only if that origin is in the trusted list, and names the fallback otherwise.
C17_EchoIffTrusted ==
  Answered =>
    /\ (AllowedOrigin = OriginSent) <=> Trusted(OriginSent)
    /\ ~Trusted(OriginSent) => AllowedOrigin = Fallback
\* C17: the Access-Control-Allow-Origin of every answer of the adapter is the
\* request's Origin when that origin is in the trusted list, and otherwise
\* (another Origin, or none) the first trusted origin, or "*" when the list
\* is empty; it names an Origin that is not trusted only when the list is
\* empty and the Origin sent is "*" itself.
C17_OriginPolicy ==
  Answered =>
    /\ Trusted(OriginSent) => AllowedOrigin = OriginSent
    /\ ~Trusted(OriginSent) => AllowedOrigin = Fallback
    /\ (AllowedOrigin = OriginSent /\ ~Trusted(OriginSent)) =>
         (trustedOrigins = <<>> /\ OriginSent = "*")
C17_Witness ==
  /\ Answered
  /\ trustedOrigins = <<AppOrigin, AdminOrigin>>
  /\ OriginSent = EvilOrigin
  /\ AllowedOrigin = AppOrigin

\* ------------------------------------------------------------------ C18
\* C18: an OPTIONS event, whatever its URL, headers and body, is answered
\* with status 200, the four CORS headers and an empty body, and nothing of
\* the provider is called for it: neither its protocol handler nor a session
\* lookup, and its state stays as it was.
C18_PreflightShortCircuit ==
  (Answered /\ req.event.httpMethod = "OPTIONS") =>
    /\ resp.statusCode = 200
    /\ resp.body = ""
    /\ DOMAIN resp.headers =
         {"Access-Control-Allow-Origin", "Access-Control-Allow-Credentials",
          "Access-Control-Allow-Methods", "Access-Control-Allow-Headers"}
    /\ resp.headers["Access-Control-Allow-Credentials"] = "true"
    /\ resp.headers["Access-Control-Allow-Methods"] = "GET,POST,PUT,DELETE,OPTIONS"
    /\ resp.headers["Access-Control-Allow-Headers"]
         = "Content-Type, Authorization, X-Requested-With, x-api-key"
    /\ AllowedOrigin = (IF Trusted(OriginSent) THEN OriginSent ELSE Fallback)
    /\ calls = <<>>
    /\ ProviderState = [apiKeys |-> {}, keyCount |-> 0, orgCount |-> 0,
                        members |-> {}, sessions |-> {}]
C18_Witness ==
  /\ Answered
  /\ req.event.httpMethod = "OPTIONS"
  /\ req.event.rawUrl = "https://auth.example/dev/whoami"
  /\ Has(req.event.headers, "cookie")
  /\ req.event.hasBody /\ req.event.body # <<>>
  /\ resp.statusCode = 200

\* ------------------------------------------------------------------ C19
Given(k) == Has(processEnv, k)
MePayload ==
  IF Principal \in Users
  THEN [user |-> [id |-> Principal, email |-> UserEmail(Principal),
                  role |-> UserRole(Principal)]]
  ELSE Null
MeAnswered == Answered /\ IsMe /\ req.fault = "none"
\* C20: whatever headers a GET /me request carries, once the provider has
\* answered the lookup the response is 200 with the session payload of the
\* principal it resolved, or null when it resolved none; the lookup is the
\* only call made (no role or membership is asked for), and answering
\* changes nothing of the provider's state.
C20_MeNeverRejects ==
  /\ [](MeAnswered =>
          /\ resp.status = 200
          /\ resp.body = MePayload
          /\ Len(calls) = 1 /\ calls[1].op = "getSession")
  /\ [][(Idle /\ MeAnswered') => UNCHANGED <<idpVars, revoked, startVars>>]_vars
C20_Witness ==
  /\ MeAnswered
  /\ req.headers = NoHeaders
  /\ apiKeys # {}
  /\ Principal = NoUser
  /\ resp = Reply(200, Null, NoHeaders)

\* ------------------------------------------------------------------ C21
CookiePresent(headers) == Has(headers, "cookie") /\ Len(headers["cookie"]) > 0
\* C21: the detector answers "none" when the request carries no cookie, no
\* API key and no bearer token, and answers cookie, apiKey or bearer only
\* when the request carries that credential.
C21_NoneWhenNoCredential ==
  (Answered /\ Has(resp.body, "mode"))
  => LET mode == resp.body.mode
         h == req.headers
     IN /\ (~ CookiePresent(h) /\ ~ ApiKeyPresent(h) /\ ~ BearerPresent(h))
             => mode = "none"
        /\ mode = "cookie" => CookiePresent(h)
        /\ mode = "apiKey" => ApiKeyPresent(h)
        /\ mode = "bearer" => BearerPresent(h)

\* ------------------------------------------------------------------ C22
\* The API key a request presents, "" when it presents none.
KeyPresented(r) ==
  IF HeaderSet(r.headers, "x-api-key") THEN r.headers["x-api-key"][1] ELSE ""
\* The users the provider holds the presented key for: one, or none.
KeyOwners(r) == {k.userId : k \in {x \in apiKeys : x.id = KeyPresented(r)}}
SessionLookedUp == \E i \in DOMAIN calls : calls[i].op = "getSession" /\ calls[i].result # "throw"
\* C22: the principal resolved for a request is the one the provider holds,
\* when the request arrives, for the credential it presents, whatever was
\* answered before: a request presenting an API key resolves the key's owner
\* if the provider still has the key and nobody if it has not, and a request
\* presenting a key that an earlier request revoked resolves nobody and is
\* answered 401.
C22_ResolvedPerRequest ==
  [][(Idle /\ Answered' /\ SessionLookedUp' /\ KeyPresented(req') # "")
       => /\ KeyOwners(req') # {} => KeyOwners(req') = {Principal'}
          /\ KeyOwners(req') = {} => Principal' = NoUser
          /\ KeyPresented(req') \in revoked
               => (Principal' = NoUser /\ resp'.status = 401 /\ UNCHANGED idpVars)]_vars
C22_Witness ==
  /\ Answered
  /\ req.method = "GET"
  /\ KeyPresented(req) \in revoked
  /\ SessionLookedUp
  /\ Principal = NoUser
  /\ resp.status = 401

\* ------------------------------------------------------------------ C23
\* A failure escaped the handler of /me: the session lookup threw.
Escaped == Answered /\ IsMe /\ req.fault = "session"
\* C23: a failure that escapes a route handler is answered, in every entry
\* point, with status 500 and a generic body in which the failure's own
\* message does not appear.
C23_GenericLastResort ==
  Escaped =>
    /\ resp.status = 500
    /\ \A k \in DOMAIN resp.body : resp.body[k] # ProviderDown

\* ------------------------------------------------------------------ C24
\* The token requests made for the answered request.
TokenRequests == {calls[i].args.body : i \in CallsOf({"fetch /api/auth/token"})}
TtlAsked == IF Has(req.body, "ttlSeconds") THEN req.body.ttlSeconds ELSE 1800
\* C24: a token issued by POST /dev/jwt/issue was asked of the provider with
\* the audience and the scopes of the request and with its ttl, 1800 seconds
\* when the request names none, and the expiresAt answered is the request
\* time plus that ttl.
C24_ParametersSupplied ==
  (Answered /\ Handler = "PostJwtIssue" /\ resp.status = 200)
  => /\ TokenRequests # {}
     /\ \A asked \in TokenRequests :
          /\ asked.expiresIn = TtlAsked
          /\ Has(req.body, "audience")
               => (Has(asked, "audience") /\ asked.audience = req.body.audience)
          /\ Has(req.body, "scopes")
               => (Has(asked, "scopes") /\ asked.scopes = req.body.scopes)
     /\ resp.body.expiresAt = TtlAsked * 1000

\* ------------------------------------------------------------------ C25
\* The request the adapter handed to the provider.
Handed == calls[1].args
ViaServerless == Answered /\ Has(req, "event") /\ calls # <<>>
ViaServer == Answered /\ Has(req, "inbound") /\ calls # <<>>
\* C25: the body handed to the provider's protocol handler is the inbound
\* body: on the serverless runtime the bytes whose base64 text the event
\* carries when the event is flagged encoded, the event's text when it is
\* not, and nothing when the event has no body; on the server the text the
\* request arrived with, and nothing when it arrived with none.
C25_BodyPassthrough ==
  /\ ViaServerless =>
       IF ~ req.event.hasBody \/ req.event.body = <<>> THEN ~ Handed.hasBody
       ELSE /\ Handed.hasBody
            /\ IF req.event.isBase64Encoded
               THEN toBase64(Handed.body) = req.event.body
               ELSE Handed.body = req.event.body
  /\ ViaServer =>
       IF ~ req.inbound.hasBody THEN ~ Handed.hasBody
       ELSE Handed.hasBody /\ Handed.body = req.inbound.raw

\* ------------------------------------------------------------------ C26
\* C26: a request of a global admin to add a member to an organization, or
\* to change a member's role in it, is answered 403 when the admin has no
\* membership in that organization or the role member only, and so is a
\* request to list its members when the admin has no membership in it; the
\* memberships stay as they were.
C26_AdminNoBypass ==
  [][(Idle /\ HandlerOf(req') \in OrgHandlers /\ Principal' # NoUser
        /\ UserRole(Principal') = "admin")
      => LET held == RoleOf(members, Principal', req'.url.path[3]) IN
         /\ (HandlerOf(req') # "GetOrgMembers" /\ held \subseteq {"member"})
              => (resp'.status = 403 /\ members' = members)
         /\ (HandlerOf(req') = "GetOrgMembers" /\ held = {})
              => (resp'.status = 403 /\ members' = members)]_vars
C26_Witness ==
  /\ Answered
  /\ Handler = "PostOrgMembers"
  /\ Principal = "R"
  /\ RoleOf(members, "R", req.url.path[3]) = {"member"}
  /\ resp.status = 403

\* ------------------------------------------------------------------ C27
\* The hook of the enabled surface turned the answered request down: the
\* request went to a route and the first call made for it, the hook's session
\* lookup, resolved nobody or failed.
HookRejected ==
  /\ Answered
  /\ devEnabled
  /\ Handler # "none"
  /\ calls # <<>>
  /\ calls[1].op = "getSession"
  /\ calls[1].result \in {"null", "throw"}
\* C27: a request the hook turned down has the hook's answer and no other,
\* 401 when nobody resolved and 500 when the lookup failed, and the route's
\* handler did nothing after it: the hook's lookup is the only call made.
C27_HookAnswersAlone ==
  HookRejected =>
    /\ Len(calls) = 1
    /\ resp.status = (IF calls[1].result = "null" THEN 401 ELSE 500)
    /\ resp.body = [error |-> IF calls[1].result = "null" THEN "Authentication required"
                              ELSE ProviderDown]
C27_Witness ==
  /\ HookRejected
  /\ Handler = "PostOrgs"
  /\ req.hasBody /\ Has(req.body, "name")
  /\ calls[1].result = "throw"
  /\ resp.status = 500

\* ------------------------------------------------------------------ C28
\* C28: the token a global admin is issued after naming another user in the
\* request is a token of that user, not of the admin.
C28_TokenForTarget ==
  (/\ Answered
   /\ Handler = "PostJwtIssue"
   /\ resp.status = 200
   /\ Principal # NoUser
   /\ UserRole(Principal) = "admin"
   /\ Has(req.body, "userId")
   /\ req.body.userId # Principal)
  => resp.body.token.sub = req.body.userId

\* ------------------------------------------------------------------ C29
\* C29: a request without credentials that is routed to the key-set handler
\* is served the key set, with a query string as without one: it is never
\* answered 401 and no principal is looked up for it.
C29_JwksWithQueryIsPublic ==
  (devEnabled /\ Answered /\ Handler = "GetJwksJson" /\ req.headers = NoHeaders)
  => /\ resp.status # 401
     /\ CallsOf({"getSession"}) = {}
     /\ req.fault = "none" => (resp.status = 200 /\ resp.body = Jwks)

\* ------------------------------------------------------------------ C30
\* The names of a header map that are `name` but for the case of letters.
NamesLike(headers, names) == DOMAIN headers \cap names
AllowOriginNames == {"Access-Control-Allow-Origin", "access-control-allow-origin"}
AllowCredentialsNames ==
  {"Access-Control-Allow-Credentials", "access-control-allow-credentials"}
\* C30: an answer of the adapter to an event that is no preflight has one
\* Access-Control-Allow-Origin header and one Access-Control-Allow-Credentials
\* header, whatever the case of their names, and they hold what the adapter
\* computed: the origin allowed for the request's Origin, and "true".
C30_OneCorsHeaderEach ==
  Forwarded =>
    /\ Cardinality(NamesLike(resp.headers, AllowOriginNames)) = 1
    /\ Cardinality(NamesLike(resp.headers, AllowCredentialsNames)) = 1
    /\ \A k \in NamesLike(resp.headers, AllowOriginNames) :
         resp.headers[k] = (IF Trusted(OriginSent) THEN OriginSent ELSE Fallback)
    /\ \A k \in NamesLike(resp.headers, AllowCredentialsNames) : resp.headers[k] = "true"
====
